---- MODULE Spec2Model ----
(***************************************************************************)
(* Model of the NeoForge version-strategy resolver of TR18SNebula:         *)
(*   - VersionSegmentedRegistry: strategy selection per loader family,     *)
(*   - NeoForgeResolver: construction (security gate),                     *)
(*   - NeoForgeGradle3Adapter: the installer-mediated pipeline             *)
(*     (process, processWithInstaller, verifyInstallerRan,                 *)
(*      processVersionManifest, processNeoForgeModule, processLibraries).  *)
(* One resolution run is a sequence of steps, one action per step; the     *)
(* file system (installer jar in the library repository, the forge cache   *)
(* directory, permanent storage) and the external installer are the        *)
(* environment.                                                            *)
(***************************************************************************)
EXTENDS Integers, Sequences, FiniteSets, TLC

VARIABLES
    pc,                 \* position of the run
    minecraftVersion,   \* <<major, minor, patch>>
    neoforgeVersion,    \* loader version, a tuple of numbers
    discardOutput,      \* constructor flag
    invalidateCache,    \* constructor flag
    strategy,           \* kind of the constructed adapter, or "none"
    advisory,           \* checkSecurity found the version unsafe (and paused)
    generatedFiles,     \* this.generatedFiles (<<>> when undefined)
    wildcardsInUse,     \* this.wildcardsInUse (<<>> when undefined)
    installerLocal,     \* the installer jar exists in the library repository
    cacheExists,        \* the cache (installer output) directory exists
    cacheFiles,         \* files below the cache directory (manifest apart)
    cacheManifest,      \* <<>>, or <<m>>: versions/<name>/<name>.json holds m
    permanent,          \* files copied to the permanent repository
    exitCode,           \* code of the installer's close event, -1 when none
    versionManifest,    \* <<>>, or <<m>>: the manifest parsed by this run
    manifestModule,     \* <<>>, or <<module>>: the version.json module
    doInstall,          \* local of processWithInstaller
    mdls,               \* modules collected by the loop in progress
    idx,                \* index of the loop in progress
    neoforgeModule,     \* <<>>, or <<root>>: the module tree of the run
    err,                \* error the run ended with, "none" otherwise
    errPaths,           \* the paths an error message names
    log,                \* side effects of the run, in order
    localStore,         \* library repository: the files [path, bytes] it holds
    remotePacked,       \* the libraries the remote repository has compressed
    embeddedManifest,   \* <<>>, or <<m>>: version.json inside the jar holds m
    run,                \* number of the resolution run in progress
    firstModule,        \* <<>>, or <<root>>: the tree the first run returned
    tempDir,            \* scratch directory: whether it exists, the files in it
    postProcessQueue,   \* the compressed libraries queued by the library loop
    tmpFiles,           \* processPackXZFiles: files, the scratch files copied so far
    accumulator,        \* processPackXZFiles: the [id, MD5] computed so far
    suspended,          \* <<>>, or <<r>>: another run on the same root awaits its turn
    previous            \* <<>>, or <<r>>: how the run before this one ended

vars == <<pc, minecraftVersion, neoforgeVersion, discardOutput, invalidateCache,
          strategy, advisory, generatedFiles, wildcardsInUse, installerLocal,
          cacheExists, cacheFiles, cacheManifest, permanent, exitCode,
          versionManifest, manifestModule, doInstall, mdls, idx, neoforgeModule, err,
          errPaths, log, localStore, remotePacked, embeddedManifest, run,
          firstModule, tempDir, postProcessQueue, tmpFiles, accumulator, suspended, previous>>

\* What the installer-mediated steps leave alone.
directVars ==
    <<localStore, remotePacked, embeddedManifest, run, firstModule, tempDir,
      postProcessQueue, tmpFiles, accumulator, suspended, previous>>

\* The state of the batch decompression.
packVars == <<tempDir, postProcessQueue, tmpFiles, accumulator>>

----------------------------------------------------------------------------
(* Bounds *)

\* Longest library list of a version manifest.
MaxLibs == 2

----------------------------------------------------------------------------
(* Versions *)

Major(v) == v[1]
Minor(v) == v[2]
Patch(v) == v[3]

\* MinecraftVersion.isGreaterThanOrEqualTo
IsGreaterThanOrEqualTo(v, w) ==
    \/ Major(v) > Major(w)
    \/ Major(v) = Major(w) /\ Minor(v) > Minor(w)
    \/ Major(v) = Major(w) /\ Minor(v) = Minor(w) /\ Patch(v) >= Patch(w)

\* VersionUtil.isVersionAcceptable: major 1 and the minor is listed.
IsVersionAcceptable(v, acceptable) == Major(v) = 1 /\ Minor(v) \in acceptable

\* Last neoforge version of 1.12 built with the older tooling.
MaxFG2 == <<14, 23, 5, 2847>>

RECURSIVE LexLeq(_, _, _)
LexLeq(a, b, i) ==
    IF i > Len(b) THEN TRUE
    ELSE IF i > Len(a) THEN TRUE
    ELSE IF a[i] > b[i] THEN FALSE
    ELSE IF a[i] < b[i] THEN TRUE
    ELSE LexLeq(a, b, i + 1)

\* VersionUtil.isOneDotTwelveFG2: the loader version is at most MaxFG2.
IsOneDotTwelveFG2(libraryVersion) == LexLeq(libraryVersion, MaxFG2, 1)

\* NeoForgeGradle2Adapter.isForVersion
FG2IsForVersion(version, libraryVersion) ==
    IF Minor(version) = 12 /\ ~IsOneDotTwelveFG2(libraryVersion)
    THEN FALSE
    ELSE IsVersionAcceptable(version, 7..12)

\* A predicate of the newer adapter that does not look at the loader version.
FG3IsForVersionAnyLoader(version, libraryVersion) ==
    IsVersionAcceptable(version, 12..21)

\* NeoForgeGradle3Adapter.isForVersion
FG3IsForVersion(version, libraryVersion) ==
    IF Minor(version) = 12 /\ IsOneDotTwelveFG2(libraryVersion)
    THEN FALSE
    ELSE IsVersionAcceptable(version, 12..21)

IsForVersion(impl, version, libraryVersion) ==
    IF impl = "NeoForgeGradle2Adapter"
    THEN FG2IsForVersion(version, libraryVersion)
    ELSE FG3IsForVersion(version, libraryVersion)

\* NeoForgeGradle3Adapter.isExecutableJar
IsExecutableJar(version) == IsGreaterThanOrEqualTo(version, <<1, 20, 3>>)

----------------------------------------------------------------------------
(* Paths, coordinates and the side-effect log *)

Undefined == "undefined"
Null == "null"

\* A coordinate <<group, artifact, version, classifier>>; the version is a
\* tuple of tokens, so that a placeholder token can be replaced in it.
Coord(group, artifact, version, classifier) ==
    <<group, artifact, version, classifier>>

NoPath == <<"", "", <<>>, "">>

\* The scratch directory when it does not exist.
NoTempDir == [exists |-> FALSE, files |-> {}]
InstallerPath == <<"NEOFORGE_GROUP", "NEOFORGE_ARTIFACT", <<"artifactVersion">>, "installer">>
WorkingInstaller == <<"cache", "installer.jar", <<>>, "">>
LauncherProfiles == <<"cache", "launcher_profiles.json", <<>>, "">>
VersionManifestPath == <<"cache", "versions", <<"name">>, "json">>
VersionManifestDest == <<"versions", "manifest", <<"name">>, "json">>
CacheDir == <<"cache", "", <<>>, "">>

Op(op, path) == [op |-> op, path |-> path]

Ops(l) == {l[i].op : i \in 1..Len(l)}

\* The positions of an operation in a log.
Positions(l, op) == {i \in 1..Len(l) : l[i].op = op}

----------------------------------------------------------------------------
(* VersionSegmentedRegistry *)

NEOFORGE_ADAPTER_IMPL == <<"NeoForgeGradle2Adapter", "NeoForgeGradle3Adapter">>
FORGE_ADAPTER_IMPL == <<"NeoForgeGradle2Adapter", "NeoForgeGradle3Adapter">>

Tables == {NEOFORGE_ADAPTER_IMPL, FORGE_ADAPTER_IMPL}

\* The loop of getNeoForgeResolver / getForgeResolver from entry i on: the
\* predicates evaluated, in order, and the implementation constructed.
RECURSIVE SelectFrom(_, _, _, _)
SelectFrom(table, i, version, libraryVersion) ==
    IF i > Len(table)
    THEN [impl |-> "none", trace |-> <<>>]
    ELSE IF IsForVersion(table[i], version, libraryVersion)
         THEN [impl |-> table[i],
               trace |-> <<Op("isForVersion", <<table[i], "", <<>>, "">>),
                           Op("new", <<table[i], "", <<>>, "">>)>>]
         ELSE LET rest == SelectFrom(table, i + 1, version, libraryVersion)
              IN  [impl |-> rest.impl,
                   trace |-> <<Op("isForVersion", <<table[i], "", <<>>, "">>)>>
                             \o rest.trace]

\* A registry that constructs the last entry of the table when the loop ends.
SelectImplDefaultLast(table, version, libraryVersion) ==
    LET r == SelectFrom(table, 1, version, libraryVersion)
    IN  IF r.impl = "none"
        THEN [impl |-> table[Len(table)],
              trace |-> r.trace \o <<Op("new", <<table[Len(table)], "", <<>>, "">>)>>]
        ELSE r

\* A registry that starts at the second entry of the table.
SelectImplSkipFirst(table, version, libraryVersion) ==
    SelectFrom(table, 2, version, libraryVersion)

SelectImpl(table, version, libraryVersion) ==
    SelectFrom(table, 1, version, libraryVersion)

----------------------------------------------------------------------------
(* NeoForgeResolver: the security gate run by the constructor *)

\* patchMatrix: the minor versions it has an entry for.
PatchMatrixKeys == {20, 21}

PatchMatrix(minor) == IF minor = 21 THEN <<21, 1, 123>> ELSE <<47, 1, 106>>

\* VersionUtil.versionGte on two defined versions.
VersionGte(version, min) == LexLeq(min, version, 1)

\* const isVulnerable = major == 1 && (minor <= 18 && minor >= 12)
IsVulnerable(version) ==
    Major(version) = 1 /\ (Minor(version) <= 18 /\ Minor(version) >= 12)

\* A gate that throws when the version is unsafe.
SecurityGateFatal(unsafe) == IF unsafe THEN "thrown" ELSE "passed"

\* if (unsafe): the advisory is logged and the 15 seconds are waited for,
\* then checkSecurity returns.
SecurityGate(unsafe) == IF unsafe THEN "paused" ELSE "passed"

\* checkSecurity: the values `unsafe` can take. No entry of patchMatrix is
\* keyed by a vulnerable minor (12..18), so the minimum handed to versionGte
\* is undefined there and its answer is left open.
CheckSecurity(version, libraryVersion) ==
    LET major == Major(version)
        minor == Minor(version)
        isVulnerable == IsVulnerable(version)
        hasPatch == major = 1 /\ minor >= 12
    IN  IF isVulnerable
        THEN IF hasPatch
             THEN IF minor \in PatchMatrixKeys
                  THEN {~VersionGte(libraryVersion, PatchMatrix(minor))}
                  ELSE BOOLEAN
             ELSE {TRUE}
        ELSE {FALSE}

----------------------------------------------------------------------------
(* NeoForgeGradle3Adapter.configure *)

WILDCARD_MCP_VERSION == "${mcpVersion}"

ArtifactVersion == <<"artifactVersion">>
MinecraftVersionString == <<"minecraftVersion">>
McpUnifiedVersion == <<"minecraftVersion", "-", WILDCARD_MCP_VERSION>>

GeneratedFile(name, group, artifact, version, classifiers, skipIfNotPresent, classpath) ==
    [name |-> name, group |-> group, artifact |-> artifact, version |-> version,
     classifiers |-> classifiers, skipIfNotPresent |-> skipIfNotPresent,
     classpath |-> classpath]

\* The block for 1.20.3 and later.
ExecutableJarFiles ==
    << GeneratedFile("universal jar", "NEOFORGE_GROUP", "NEOFORGE_ARTIFACT",
                     ArtifactVersion, <<"universal">>, "unset", "unset"),
       GeneratedFile("client jar", "NEOFORGE_GROUP", "NEOFORGE_ARTIFACT",
                     ArtifactVersion, <<"client">>, "unset", "unset"),
       GeneratedFile("client shim", "NEOFORGE_GROUP", "NEOFORGE_ARTIFACT",
                     ArtifactVersion, <<"shim">>, "unset", "false"),
       GeneratedFile("fmlcore", "NEOFORGE_GROUP", "NEOFMLCORE_ARTIFACT",
                     ArtifactVersion, <<Undefined>>, "unset", "unset"),
       GeneratedFile("javafmllanguage", "NEOFORGE_GROUP", "JAVAFMLLANGUAGE_ARTIFACT",
                     ArtifactVersion, <<Undefined>>, "unset", "unset"),
       GeneratedFile("mclanguage", "NEOFORGE_GROUP", "MCLANGUAGE_ARTIFACT",
                     ArtifactVersion, <<Undefined>>, "unset", "unset"),
       GeneratedFile("lowcodelanguage", "NEOFORGE_GROUP", "LOWCODELANGUAGE_ARTIFACT",
                     ArtifactVersion, <<Undefined>>, "unset", "unset") >>

\* The list the 1.19/1.20 block starts from.
BaseFiles ==
    << GeneratedFile("universal jar", "NEOFORGE_GROUP", "NEOFORGE_ARTIFACT",
                     ArtifactVersion, <<"universal">>, "unset", "false"),
       GeneratedFile("client jar", "NEOFORGE_GROUP", "NEOFORGE_ARTIFACT",
                     ArtifactVersion, <<"client">>, "unset", "false"),
       GeneratedFile("client data", "MINECRAFT_GROUP", "MINECRAFT_CLIENT_ARTIFACT",
                     MinecraftVersionString, <<"data">>, "true", "false"),
       GeneratedFile("client srg", "MINECRAFT_GROUP", "MINECRAFT_CLIENT_ARTIFACT",
                     McpUnifiedVersion, <<"srg">>, "unset", "false") >>

\* Added in 1.17+ (unshift).
FmlFiles ==
    << GeneratedFile("fmlcore", "NEOFORGE_GROUP", "FMLCORE_ARTIFACT",
                     ArtifactVersion, <<Undefined>>, "unset", "unset"),
       GeneratedFile("javafmllanguage", "NEOFORGE_GROUP", "JAVAFMLLANGUAGE_ARTIFACT",
                     ArtifactVersion, <<Undefined>>, "unset", "unset"),
       GeneratedFile("mclanguage", "NEOFORGE_GROUP", "MCLANGUAGE_ARTIFACT",
                     ArtifactVersion, <<Undefined>>, "unset", "unset") >>

\* Added in 1.18+ (unshift).
LowcodeFiles ==
    << GeneratedFile("lowcodelanguage", "NEOFORGE_GROUP", "LOWCODELANGUAGE_ARTIFACT",
                     ArtifactVersion, <<Undefined>>, "unset", "unset") >>

\* Pushed when the version is not 1.18+.
SlimExtraFiles ==
    << GeneratedFile("client slim", "MINECRAFT_GROUP", "MINECRAFT_CLIENT_ARTIFACT",
                     McpUnifiedVersion, <<"slim", "slim-stable">>, "unset", "false"),
       GeneratedFile("client extra", "MINECRAFT_GROUP", "MINECRAFT_CLIENT_ARTIFACT",
                     McpUnifiedVersion, <<"extra", "extra-stable">>, "unset", "false") >>

\* The body of the block guarded by isVersionAcceptable(version, [19, 20]).
ConfigureUnified(version) ==
    LET s1 == IF IsVersionAcceptable(version, {17, 18, 19, 20})
              THEN FmlFiles \o BaseFiles
              ELSE BaseFiles
        s2 == IF IsVersionAcceptable(version, {18, 19, 20})
              THEN LowcodeFiles \o s1
              ELSE s1 \o SlimExtraFiles
    IN  [generatedFiles |-> s2, wildcardsInUse |-> <<WILDCARD_MCP_VERSION>>]

\* configure: the fields it leaves in the adapter.
Configure(version) ==
    IF IsExecutableJar(version)
    THEN [generatedFiles |-> ExecutableJarFiles, wildcardsInUse |-> <<>>]
    ELSE IF IsVersionAcceptable(version, {19, 20})
         THEN ConfigureUnified(version)
         ELSE [generatedFiles |-> <<>>, wildcardsInUse |-> <<>>]

----------------------------------------------------------------------------
(* The environment: version manifests, installer output, targets *)

LibNames == <<"libA", "libB", "libC", "libD">>

\* Where a library of the manifest lies below a library directory.
LibPath(name) == <<"library", name, <<"1.0">>, "">>

\* The library lists of at most n records; record i may lack a download url.
RECURSIVE LibraryLists(_)
LibraryLists(n) ==
    IF n = 0
    THEN {<<>>}
    ELSE LET shorter == LibraryLists(n - 1)
         IN  shorter \cup
             {Append(l, [name |-> LibNames[n], url |-> u]) :
                 l \in {x \in shorter : Len(x) = n - 1}, u \in BOOLEAN}

\* arguments.game of a manifest: without the flag, with the flag and its
\* value, with the flag as last argument.
GameArguments ==
    { <<"--launchTarget", "forgeclient">>,
      <<"--fml.mcpVersion", "20230612">>,
      <<"--launchTarget", "--fml.mcpVersion">> }

Manifests ==
    {[game |-> g, libraries |-> l] : g \in GameArguments, l \in LibraryLists(MaxLibs)}

\* getMCPVersion: the argument after the flag (undefined past the end), or null.
RECURSIVE GetMCPVersionFrom(_, _)
GetMCPVersionFrom(args, i) ==
    IF i > Len(args) THEN Null
    ELSE IF args[i] = "--fml.mcpVersion"
         THEN IF i + 1 > Len(args) THEN Undefined ELSE args[i + 1]
         ELSE GetMCPVersionFrom(args, i + 1)

GetMCPVersion(args) == GetMCPVersionFrom(args, 1)

\* String.includes / String.replace on a version: the first occurrence of the
\* token is replaced.
Includes(version, token) == \E i \in 1..Len(version) : version[i] = token

Replace(version, token, by) ==
    IF Includes(version, token)
    THEN LET k == CHOOSE i \in 1..Len(version) :
                      version[i] = token /\ \A j \in 1..(i - 1) : version[j] # token
         IN  [version EXCEPT ![k] = by]
    ELSE version

\* A map that returns the templates as they are.
ResolveWildcardsNone(files, mcpVersion) == files

\* The map of processNeoForgeModule over generatedFiles.
ResolveWildcards(files, mcpVersion) ==
    [i \in 1..Len(files) |->
        IF Includes(files[i].version, WILDCARD_MCP_VERSION)
        THEN [files[i] EXCEPT !.version = Replace(@, WILDCARD_MCP_VERSION, mcpVersion)]
        ELSE files[i]]

\* MavenUtil.mavenComponentsAsNormalizedPath below the library directory.
TargetLocalPath(entry, classifier) ==
    Coord(entry.group, entry.artifact, entry.version, classifier)

\* MavenUtil.mavenComponentsToIdentifier
Identifier(entry, classifier) ==
    Coord(entry.group, entry.artifact, entry.version, classifier)

\* Every path the entries can be looked up at.
EntryPaths(files) ==
    UNION {{TargetLocalPath(files[i], files[i].classifiers[j]) :
                j \in 1..Len(files[i].classifiers)} : i \in 1..Len(files)}

\* The files an installer run leaves below libraries/ for manifest m: the
\* generated files of the entries and the libraries with a url, all of them or
\* all but one.
ExpectedOutput(files, m) ==
    LET mcp == GetMCPVersion(m.game)
        resolved == IF mcp \in {Null, Undefined} THEN files
                    ELSE ResolveWildcards(files, mcp)
    IN  EntryPaths(resolved) \cup
        {LibPath(m.libraries[i].name) : i \in {j \in 1..Len(m.libraries) : m.libraries[j].url}}

\* The (game version, loader version) pairs resolved.
Targets ==
    { << <<1, 6, 4>>, <<9, 11, 1>> >>,
      << <<1, 10, 2>>, <<12, 18, 3>> >>,
      << <<1, 12, 2>>, <<14, 23, 5, 2847>> >>,
      << <<1, 12, 2>>, <<14, 23, 5, 2860>> >>,
      << <<1, 16, 5>>, <<36, 2, 39>> >>,
      << <<1, 20, 1>>, <<47, 1, 79>> >>,
      << <<1, 20, 4>>, <<20, 4, 80>> >>,
      << <<1, 21, 1>>, <<21, 1, 100>> >>,
      << <<1, 22, 0>>, <<22, 0, 1>> >>,
      << <<2, 0, 0>>, <<1, 0, 0>> >> }

\* The generated-file lists a run can be configured with.
ConfiguredFiles == {Configure(t[1]).generatedFiles : t \in Targets}

InstallerOutputsOf ==
    [files \in ConfiguredFiles |->
        {[manifest |-> <<>>, files |-> {}]} \cup
        UNION {{[manifest |-> <<m>>, files |-> f] :
                   f \in {ExpectedOutput(files, m)} \cup
                         {ExpectedOutput(files, m) \ {p} : p \in ExpectedOutput(files, m)}} :
               m \in Manifests}]

InstallerOutputs(files) ==
    InstallerOutputsOf[files]

\* The cache directory a run can find: absent, empty, or left by an earlier run.
InitialCaches(files) ==
    {[exists |-> FALSE, files |-> {}, manifest |-> <<>>],
     [exists |-> TRUE, files |-> {}, manifest |-> <<>>]} \cup
    {[exists |-> TRUE, files |-> {WorkingInstaller, LauncherProfiles} \cup o.files,
      manifest |-> o.manifest] : o \in InstallerOutputs(files)}

ExitCodes == {0, 1}

----------------------------------------------------------------------------
(* Initial states *)

Init ==
    /\ pc = "start"
    /\ \E t \in Targets : minecraftVersion = t[1] /\ neoforgeVersion = t[2]
    /\ discardOutput \in BOOLEAN
    /\ invalidateCache \in BOOLEAN
    /\ strategy = "none"
    /\ advisory = FALSE
    /\ generatedFiles = <<>>
    /\ wildcardsInUse = <<>>
    /\ installerLocal \in BOOLEAN
    /\ \E c \in InitialCaches(Configure(minecraftVersion).generatedFiles) :
          /\ Len(Configure(minecraftVersion).generatedFiles) = 0 => ~c.exists
          /\ cacheExists = c.exists
          /\ cacheFiles = c.files
          /\ cacheManifest = c.manifest
    /\ permanent = {}
    /\ exitCode = -1
    /\ versionManifest = <<>>
    /\ manifestModule = <<>>
    /\ doInstall = TRUE
    /\ mdls = <<>>
    /\ idx = 0
    /\ neoforgeModule = <<>>
    /\ err = "none"
    /\ errPaths = <<>>
    /\ log = <<>>
    /\ localStore = {}
    /\ remotePacked = {}
    /\ embeddedManifest = <<>>
    /\ run = 1
    /\ firstModule = <<>>
    /\ tempDir = NoTempDir
    /\ postProcessQueue = <<>>
    /\ tmpFiles = <<>>
    /\ accumulator = <<>>
    /\ suspended = <<>>
    /\ previous = <<>>

----------------------------------------------------------------------------
(* Construction: VersionSegmentedRegistry.getNeoForgeResolver and the       *)
(* constructors it runs                                                     *)

Fail(e) ==
    /\ pc' = "failed"
    /\ err' = e

\* No entry of the table is for the version: the registry throws.
GetResolverNoneFound ==
    /\ pc = "start"
    /\ \E table \in Tables :
          LET r == SelectImpl(table, minecraftVersion, neoforgeVersion)
          IN  /\ r.impl = "none"
              /\ log' = log \o r.trace
    /\ Fail("NoStrategyFound")
    /\ UNCHANGED <<minecraftVersion, neoforgeVersion, discardOutput, invalidateCache,
                   strategy, advisory, generatedFiles, wildcardsInUse, installerLocal,
                   cacheExists, cacheFiles, cacheManifest, permanent, exitCode,
                   versionManifest, manifestModule, doInstall, mdls, idx,
                   neoforgeModule, errPaths>>
    /\ UNCHANGED directVars

\* The first entry that is for the version is constructed: the constructor of
\* NeoForgeResolver runs checkSecurity, and that of NeoForgeGradle3Adapter
\* runs configure.
GetResolver ==
    /\ pc = "start"
    /\ \E table \in Tables :
          LET r == SelectImpl(table, minecraftVersion, neoforgeVersion)
          IN  /\ r.impl # "none"
              /\ strategy' = r.impl
              /\ log' = log \o r.trace \o <<Op("checkSecurity", NoPath)>>
              /\ generatedFiles' =
                    IF r.impl = "NeoForgeGradle3Adapter"
                    THEN Configure(minecraftVersion).generatedFiles
                    ELSE <<>>
              /\ wildcardsInUse' =
                    IF r.impl = "NeoForgeGradle3Adapter"
                    THEN Configure(minecraftVersion).wildcardsInUse
                    ELSE <<>>
    /\ \E unsafe \in CheckSecurity(minecraftVersion, neoforgeVersion) :
          /\ advisory' = unsafe
          /\ IF SecurityGate(unsafe) = "thrown"
             THEN Fail("SecurityAdvisory")
             ELSE pc' = "constructed" /\ UNCHANGED err
    /\ UNCHANGED <<minecraftVersion, neoforgeVersion, discardOutput, invalidateCache,
                   installerLocal, cacheExists, cacheFiles, cacheManifest, permanent,
                   exitCode, versionManifest, manifestModule, doInstall, mdls, idx,
                   neoforgeModule, errPaths>>
    /\ UNCHANGED directVars

----------------------------------------------------------------------------
(* NeoForgeGradle3Adapter.process *)

\* A process that runs the installer whatever configure left.
ProcessBranchAlways == "processWithInstaller"

\* Where process continues once the installer jar is in the repository.
ProcessBranch ==
    IF Len(generatedFiles) > 0 THEN "processWithInstaller" ELSE "processWithoutInstaller"

\* The installer jar is in the library repository.
ProcessLocalInstaller ==
    /\ pc = "constructed"
    /\ strategy = "NeoForgeGradle3Adapter"
    /\ installerLocal
    /\ pc' = ProcessBranch
    /\ UNCHANGED <<minecraftVersion, neoforgeVersion, discardOutput, invalidateCache,
                   strategy, advisory, generatedFiles, wildcardsInUse, installerLocal,
                   cacheExists, cacheFiles, cacheManifest, permanent, exitCode,
                   versionManifest, manifestModule, doInstall, mdls, idx,
                   neoforgeModule, err, errPaths, log>>
    /\ UNCHANGED directVars

\* The installer jar is downloaded from the remote repository.
ProcessDownloadInstaller ==
    /\ pc = "constructed"
    /\ strategy = "NeoForgeGradle3Adapter"
    /\ ~installerLocal
    /\ installerLocal' = TRUE
    /\ log' = Append(log, Op("download", InstallerPath))
    /\ pc' = ProcessBranch
    /\ UNCHANGED <<minecraftVersion, neoforgeVersion, discardOutput, invalidateCache,
                   strategy, advisory, generatedFiles, wildcardsInUse,
                   cacheExists, cacheFiles, cacheManifest, permanent, exitCode,
                   versionManifest, manifestModule, doInstall, mdls, idx,
                   neoforgeModule, err, errPaths>>
    /\ UNCHANGED directVars

\* The download of the installer jar fails.
ProcessDownloadFails ==
    /\ pc = "constructed"
    /\ strategy = "NeoForgeGradle3Adapter"
    /\ ~installerLocal
    /\ log' = Append(log, Op("download", InstallerPath))
    /\ Fail("DownloadError")
    /\ UNCHANGED <<minecraftVersion, neoforgeVersion, discardOutput, invalidateCache,
                   strategy, advisory, generatedFiles, wildcardsInUse, installerLocal,
                   cacheExists, cacheFiles, cacheManifest, permanent, exitCode,
                   versionManifest, manifestModule, doInstall, mdls, idx,
                   neoforgeModule, errPaths>>
    /\ UNCHANGED directVars

----------------------------------------------------------------------------
(* NeoForgeGradle3Adapter.processWithInstaller: cache check, installer *)

\* A cache check that installs again although the cache may be used.
CacheCheckResultAlwaysInstalls(exists, files, manifest, invalidate) ==
    IF exists
    THEN IF invalidate
         THEN [exists |-> FALSE, files |-> {}, manifest |-> <<>>, doInstall |-> TRUE,
               trace |-> <<Op("remove", CacheDir)>>]
         ELSE [exists |-> TRUE, files |-> files, manifest |-> manifest,
               doInstall |-> TRUE, trace |-> <<>>]
    ELSE [exists |-> TRUE, files |-> {}, manifest |-> <<>>, doInstall |-> TRUE,
          trace |-> <<Op("mkdirs", CacheDir)>>]

\* A cache check that invalidates without removing the directory.
CacheCheckResultSkipsRemove(exists, files, manifest, invalidate) ==
    IF exists
    THEN [exists |-> TRUE, files |-> files, manifest |-> manifest,
          doInstall |-> invalidate, trace |-> <<>>]
    ELSE [exists |-> TRUE, files |-> {}, manifest |-> <<>>, doInstall |-> TRUE,
          trace |-> <<Op("mkdirs", CacheDir)>>]

\* The outcome of the cache check: what is left of the cache directory,
\* doInstall, and the file system calls made.
CacheCheckResult(exists, files, manifest, invalidate) ==
    IF exists
    THEN IF invalidate
         THEN [exists |-> FALSE, files |-> {}, manifest |-> <<>>, doInstall |-> TRUE,
               trace |-> <<Op("remove", CacheDir)>>]
         ELSE [exists |-> TRUE, files |-> files, manifest |-> manifest,
               doInstall |-> FALSE, trace |-> <<>>]
    ELSE [exists |-> TRUE, files |-> {}, manifest |-> <<>>, doInstall |-> TRUE,
          trace |-> <<Op("mkdirs", CacheDir)>>]

CacheCheck ==
    /\ pc = "processWithInstaller"
    /\ LET r == CacheCheckResult(cacheExists, cacheFiles, cacheManifest, invalidateCache)
       IN  /\ cacheExists' = r.exists
           /\ cacheFiles' = r.files
           /\ cacheManifest' = r.manifest
           /\ doInstall' = r.doInstall
           /\ log' = log \o r.trace
           /\ pc' = IF r.doInstall THEN "stage" ELSE "verify"
    /\ UNCHANGED <<minecraftVersion, neoforgeVersion, discardOutput, invalidateCache,
                   strategy, advisory, generatedFiles, wildcardsInUse, installerLocal,
                   permanent, exitCode, versionManifest, manifestModule, mdls, idx,
                   neoforgeModule, err, errPaths>>
    /\ UNCHANGED directVars

\* The installer is copied into the output directory (copy creates the
\* directory when it is missing), the placeholder profile is written and the
\* installer is spawned.
StageInstaller ==
    /\ pc = "stage"
    /\ cacheExists' = TRUE
    /\ cacheFiles' = cacheFiles \cup {WorkingInstaller, LauncherProfiles}
    /\ log' = log \o <<Op("copy", WorkingInstaller), Op("writeFile", LauncherProfiles),
                       Op("spawn", WorkingInstaller)>>
    /\ pc' = "installerRunning"
    /\ UNCHANGED <<minecraftVersion, neoforgeVersion, discardOutput, invalidateCache,
                   strategy, advisory, generatedFiles, wildcardsInUse, installerLocal,
                   cacheManifest, permanent, exitCode, versionManifest, manifestModule,
                   doInstall, mdls, idx, neoforgeModule, err, errPaths>>
    /\ UNCHANGED directVars

\* executeInstaller that runs the installer again when the exit code is not 0.
AfterInstallerCloseRetries(code) == IF code = 0 THEN "verify" ELSE "stage"

\* executeInstaller that rejects when the exit code is not 0.
AfterInstallerCloseRejects(code) == IF code = 0 THEN "verify" ELSE "failed"

\* Where executeInstaller's promise leaves the run when the child closes.
AfterInstallerClose(code) == "verify"

\* The installer process closes with some exit code, having written what it
\* wrote; executeInstaller resolves.
InstallerClose ==
    /\ pc = "installerRunning"
    /\ \E code \in ExitCodes :
          /\ exitCode' = code
          /\ pc' = AfterInstallerClose(code)
    /\ \E out \in InstallerOutputs(generatedFiles) :
          /\ cacheFiles' = cacheFiles \cup out.files
          /\ cacheManifest' = IF out.manifest # <<>> THEN out.manifest ELSE cacheManifest
    /\ log' = Append(log, Op("close", WorkingInstaller))
    /\ UNCHANGED <<minecraftVersion, neoforgeVersion, discardOutput, invalidateCache,
                   strategy, advisory, generatedFiles, wildcardsInUse, installerLocal,
                   cacheExists, permanent, versionManifest, manifestModule,
                   doInstall, mdls, idx, neoforgeModule, err, errPaths>>
    /\ UNCHANGED directVars

\* verifyInstallerRan that never finds the manifest missing.
VerifyResultNeverThrows(exists, files, manifest) ==
    [throws |-> FALSE, exists |-> exists, files |-> files, manifest |-> manifest,
     trace |-> <<>>]

\* verifyInstallerRan that throws without removing the output directory.
VerifyResultKeepsDirectory(exists, files, manifest) ==
    [throws |-> manifest = <<>>, exists |-> exists, files |-> files,
     manifest |-> manifest, trace |-> <<>>]

\* verifyInstallerRan: whether it throws, what it leaves of the output
\* directory, and the file system calls made.
VerifyResult(exists, files, manifest) ==
    IF manifest = <<>>
    THEN [throws |-> TRUE, exists |-> FALSE, files |-> {}, manifest |-> <<>>,
          trace |-> <<Op("remove", CacheDir)>>]
    ELSE [throws |-> FALSE, exists |-> exists, files |-> files, manifest |-> manifest,
          trace |-> <<>>]

VerifyInstallerRan ==
    /\ pc = "verify"
    /\ exitCode' = -1
    /\ LET r == VerifyResult(cacheExists, cacheFiles, cacheManifest)
       IN  /\ cacheExists' = r.exists
           /\ cacheFiles' = r.files
           /\ cacheManifest' = r.manifest
           /\ log' = log \o r.trace
           /\ IF r.throws
              THEN Fail("InstallerOutputMissing")
              ELSE /\ pc' = "processVersionManifest"
                   /\ UNCHANGED err
    /\ UNCHANGED <<minecraftVersion, neoforgeVersion, discardOutput, invalidateCache,
                   strategy, advisory, generatedFiles, wildcardsInUse, installerLocal,
                   permanent, versionManifest, manifestModule, doInstall, mdls, idx,
                   neoforgeModule, errPaths>>
    /\ UNCHANGED directVars

----------------------------------------------------------------------------
(* Modules *)

Module(id, name, type, classpath, readFrom) ==
    [id |-> id, name |-> name, type |-> type, classpath |-> classpath,
     artifact |-> [readFrom |-> readFrom], subModules |-> <<>>]

\* entry.classpath ?? true
ClasspathOrTrue(classpath) == IF classpath = "unset" THEN "true" ELSE classpath

----------------------------------------------------------------------------
(* NeoForgeGradle3Adapter.processVersionManifest *)

\* readFile of a missing manifest rejects; otherwise the manifest is parsed,
\* wrapped as a module and copied to the version repository.
ProcessVersionManifest ==
    /\ pc = "processVersionManifest"
    /\ IF cacheManifest = <<>>
       THEN /\ Fail("ENOENT")
            /\ UNCHANGED <<versionManifest, manifestModule, permanent, log>>
       ELSE /\ versionManifest' = cacheManifest
            /\ manifestModule' = <<Module(ArtifactVersion, "version.json",
                                          "VersionManifest", "unset",
                                          VersionManifestPath)>>
            /\ permanent' = permanent \cup {VersionManifestDest}
            /\ log' = Append(log, Op("copy", VersionManifestDest))
            /\ pc' = "processNeoForgeModule"
            /\ UNCHANGED err
    /\ UNCHANGED <<minecraftVersion, neoforgeVersion, discardOutput, invalidateCache,
                   strategy, advisory, generatedFiles, wildcardsInUse, installerLocal,
                   cacheExists, cacheFiles, cacheManifest, exitCode, doInstall, mdls,
                   idx, neoforgeModule, errPaths>>
    /\ UNCHANGED directVars

----------------------------------------------------------------------------
(* NeoForgeGradle3Adapter.processNeoForgeModule *)

\* The placeholder of the templates is resolved from the manifest's arguments.
BeginNeoForgeModule ==
    /\ pc = "processNeoForgeModule"
    /\ IF /\ Len(wildcardsInUse) > 0
          /\ \E i \in 1..Len(wildcardsInUse) : wildcardsInUse[i] = WILDCARD_MCP_VERSION
       THEN LET mcpVersion == GetMCPVersion(versionManifest[1].game)
            IN  IF mcpVersion \in {Null, Undefined}
                THEN /\ Fail("PlaceholderUnresolved")
                     /\ UNCHANGED <<generatedFiles, mdls, idx>>
                ELSE /\ generatedFiles' = ResolveWildcards(generatedFiles, mcpVersion)
                     /\ mdls' = <<>>
                     /\ idx' = 1
                     /\ pc' = "entries"
                     /\ UNCHANGED err
       ELSE /\ mdls' = <<>>
            /\ idx' = 1
            /\ pc' = "entries"
            /\ UNCHANGED <<generatedFiles, err>>
    /\ UNCHANGED <<minecraftVersion, neoforgeVersion, discardOutput, invalidateCache,
                   strategy, advisory, wildcardsInUse, installerLocal,
                   cacheExists, cacheFiles, cacheManifest, permanent, exitCode,
                   versionManifest, manifestModule, doInstall, neoforgeModule,
                   errPaths, log>>
    /\ UNCHANGED directVars

\* The classifier loop of one entry that goes on after a classifier was found.
RECURSIVE ClassifierLoopNoBreakFrom(_, _, _)
ClassifierLoopNoBreakFrom(entry, j, files) ==
    IF j > Len(entry.classifiers)
    THEN [located |-> FALSE, mdls |-> <<>>, copied |-> {}, targetLocations |-> <<>>,
          trace |-> <<>>]
    ELSE LET classifier == entry.classifiers[j]
             targetLocalPath == TargetLocalPath(entry, classifier)
             rest == ClassifierLoopNoBreakFrom(entry, j + 1, files)
         IN  IF targetLocalPath \in files
             THEN [located |-> TRUE,
                   mdls |-> <<Module(Identifier(entry, classifier), entry.name,
                                     "Library", ClasspathOrTrue(entry.classpath),
                                     targetLocalPath)>> \o rest.mdls,
                   copied |-> {targetLocalPath} \cup rest.copied,
                   targetLocations |-> <<targetLocalPath>> \o rest.targetLocations,
                   trace |-> <<Op("pathExists", targetLocalPath),
                               Op("copy", targetLocalPath)>> \o rest.trace]
             ELSE [rest EXCEPT
                      !.targetLocations = <<targetLocalPath>> \o @,
                      !.trace = <<Op("pathExists", targetLocalPath)>> \o @]

ClassifierLoopNoBreak(entry, files) == ClassifierLoopNoBreakFrom(entry, 1, files)

\* The classifier loop of one entry from classifier j on: whether a file was
\* located, the modules pushed, the files copied to the repository, the paths
\* tried, and the file system calls made.
RECURSIVE ClassifierLoopFrom(_, _, _)
ClassifierLoopFrom(entry, j, files) ==
    IF j > Len(entry.classifiers)
    THEN [located |-> FALSE, mdls |-> <<>>, copied |-> {}, targetLocations |-> <<>>,
          trace |-> <<>>]
    ELSE LET classifier == entry.classifiers[j]
             targetLocalPath == TargetLocalPath(entry, classifier)
         IN  IF targetLocalPath \in files
             THEN [located |-> TRUE,
                   mdls |-> <<Module(Identifier(entry, classifier), entry.name,
                                     "Library", ClasspathOrTrue(entry.classpath),
                                     targetLocalPath)>>,
                   copied |-> {targetLocalPath},
                   targetLocations |-> <<targetLocalPath>>,
                   trace |-> <<Op("pathExists", targetLocalPath),
                               Op("copy", targetLocalPath)>>]
             ELSE LET rest == ClassifierLoopFrom(entry, j + 1, files)
                  IN  [rest EXCEPT
                          !.targetLocations = <<targetLocalPath>> \o @,
                          !.trace = <<Op("pathExists", targetLocalPath)>> \o @]

ClassifierLoop(entry, files) == ClassifierLoopFrom(entry, 1, files)

\* A check that ignores skipIfNotPresent.
MustThrowIgnoresSkip(skipIfNotPresent, located) == ~located

\* !entry.skipIfNotPresent && !located
MustThrow(skipIfNotPresent, located) == skipIfNotPresent # "true" /\ ~located

\* One iteration of the loop over generatedFiles.
ReconcileEntry ==
    /\ pc = "entries"
    /\ idx <= Len(generatedFiles)
    /\ LET entry == generatedFiles[idx]
           r == ClassifierLoop(entry, cacheFiles)
       IN  /\ mdls' = mdls \o r.mdls
           /\ permanent' = permanent \cup r.copied
           /\ log' = log \o r.trace
           /\ IF MustThrow(entry.skipIfNotPresent, r.located)
              THEN /\ Fail("RequiredArtifactMissing")
                   /\ errPaths' = r.targetLocations
                   /\ UNCHANGED idx
              ELSE /\ idx' = idx + 1
                   /\ UNCHANGED <<pc, err, errPaths>>
    /\ UNCHANGED <<minecraftVersion, neoforgeVersion, discardOutput, invalidateCache,
                   strategy, advisory, generatedFiles, wildcardsInUse, installerLocal,
                   cacheExists, cacheFiles, cacheManifest, exitCode,
                   versionManifest, manifestModule, doInstall, neoforgeModule>>
    /\ UNCHANGED directVars

\* A root taken from the end of the list (pop for shift).
RootOfLast(modules) ==
    [modules[Len(modules)] EXCEPT !.type = "NeoForgeHosted",
                                  !.subModules = SubSeq(modules, 1, Len(modules) - 1)]

\* mdls.shift() becomes the root, re-tagged, with the rest as its subModules.
RootOf(modules) ==
    [Head(modules) EXCEPT !.type = "NeoForgeHosted", !.subModules = Tail(modules)]

\* The end of processNeoForgeModule, and the unshift of the version.json
\* module by processWithInstaller.
FinishNeoForgeModule ==
    /\ pc = "entries"
    /\ idx > Len(generatedFiles)
    /\ IF mdls = <<>>
       THEN /\ Fail("TypeError")
            /\ UNCHANGED <<neoforgeModule, mdls, idx>>
       ELSE /\ neoforgeModule' =
                  <<[RootOf(mdls) EXCEPT !.subModules = manifestModule \o @]>>
            /\ mdls' = <<>>
            /\ idx' = 1
            /\ pc' = "libraries"
            /\ UNCHANGED err
    /\ UNCHANGED <<minecraftVersion, neoforgeVersion, discardOutput, invalidateCache,
                   strategy, advisory, generatedFiles, wildcardsInUse, installerLocal,
                   cacheExists, cacheFiles, cacheManifest, permanent, exitCode,
                   versionManifest, manifestModule, doInstall, errPaths, log>>
    /\ UNCHANGED directVars

----------------------------------------------------------------------------
(* NeoForgeGradle3Adapter.processLibraries and the end of the run *)

\* A test of the url that is true of every record.
HasUrlAlways(entry) == TRUE

\* if (artifact.url): the record carries a download url.
HasUrl(entry) == entry.url

\* One iteration of the loop over manifest.libraries.
ProcessLibrary ==
    /\ pc = "libraries"
    /\ idx <= Len(versionManifest[1].libraries)
    /\ LET entry == versionManifest[1].libraries[idx]
           targetLocalPath == LibPath(entry.name)
       IN  IF HasUrl(entry)
           THEN IF targetLocalPath \notin cacheFiles
                THEN /\ Fail("ExpectedLibraryMissing")
                     /\ log' = Append(log, Op("pathExists", targetLocalPath))
                     /\ UNCHANGED <<mdls, permanent, idx>>
                ELSE /\ mdls' = Append(mdls, Module(entry.name, entry.name, "Library",
                                                    "unset", targetLocalPath))
                     /\ permanent' = permanent \cup {targetLocalPath}
                     /\ log' = log \o <<Op("pathExists", targetLocalPath),
                                        Op("copy", targetLocalPath)>>
                     /\ idx' = idx + 1
                     /\ UNCHANGED <<pc, err>>
           ELSE /\ idx' = idx + 1
                /\ UNCHANGED <<pc, err, mdls, permanent, log>>
    /\ UNCHANGED <<minecraftVersion, neoforgeVersion, discardOutput, invalidateCache,
                   strategy, advisory, generatedFiles, wildcardsInUse, installerLocal,
                   cacheExists, cacheFiles, cacheManifest, exitCode,
                   versionManifest, manifestModule, doInstall, neoforgeModule,
                   errPaths>>
    /\ UNCHANGED directVars

\* A concat whose result is not assigned.
ConcatLibrariesDropped(subModules, libs) == subModules

\* neoforgeModule.subModules = neoforgeModule.subModules?.concat(libs)
ConcatLibraries(subModules, libs) == subModules \o libs

\* A cleanup that removes the installer output whatever the flag.
CleanupResultAlwaysRemoves(discard, exists, files, manifest) ==
    [exists |-> FALSE, files |-> {}, manifest |-> <<>>,
     trace |-> <<Op("remove", CacheDir)>>]

\* A cleanup that leaves the installer output in place whatever the flag.
CleanupResultNeverRemoves(discard, exists, files, manifest) ==
    [exists |-> exists, files |-> files, manifest |-> manifest, trace |-> <<>>]

\* if (this.discardOutput) remove(installerOutputDir): what is left of the
\* output directory, and the file system calls made.
CleanupResult(discard, exists, files, manifest) ==
    IF discard
    THEN [exists |-> FALSE, files |-> {}, manifest |-> <<>>,
          trace |-> <<Op("remove", CacheDir)>>]
    ELSE [exists |-> exists, files |-> files, manifest |-> manifest, trace |-> <<>>]

\* The libraries are appended to the root's subModules, the installer output is
\* removed when it is to be discarded, and the tree is returned.
Finish ==
    /\ pc = "libraries"
    /\ idx > Len(versionManifest[1].libraries)
    /\ neoforgeModule' =
          <<[neoforgeModule[1] EXCEPT !.subModules = ConcatLibraries(@, mdls)]>>
    /\ LET r == CleanupResult(discardOutput, cacheExists, cacheFiles, cacheManifest)
       IN  /\ cacheExists' = r.exists
           /\ cacheFiles' = r.files
           /\ cacheManifest' = r.manifest
           /\ log' = log \o r.trace
    /\ pc' = "done"
    /\ UNCHANGED <<minecraftVersion, neoforgeVersion, discardOutput, invalidateCache,
                   strategy, advisory, generatedFiles, wildcardsInUse, installerLocal,
                   permanent, exitCode, versionManifest, manifestModule, doInstall,
                   mdls, idx, err, errPaths>>
    /\ UNCHANGED directVars

----------------------------------------------------------------------------
(* Specification *)

Next ==
    \/ GetResolverNoneFound
    \/ GetResolver
    \/ ProcessLocalInstaller
    \/ ProcessDownloadInstaller
    \/ ProcessDownloadFails
    \/ CacheCheck
    \/ StageInstaller
    \/ InstallerClose
    \/ VerifyInstallerRan
    \/ ProcessVersionManifest
    \/ BeginNeoForgeModule
    \/ ReconcileEntry
    \/ FinishNeoForgeModule
    \/ ProcessLibrary
    \/ Finish

Spec == Init /\ [][Next]_vars

----------------------------------------------------------------------------
(* processNeoForgeModule on its own: the adapter holds one of the lists the  *)
(* blocks of configure build (for 1.20.4, for 1.20.1, and the list the       *)
(* 1.19/1.20 block builds for a version below 1.18, with its two-classifier  *)
(* entries), the manifest is parsed, and the library directory holds any     *)
(* subset of the files the entries can be looked up at.                      *)

ReconcileConfigs ==
    { [version |-> <<1, 20, 4>>, config |-> Configure(<<1, 20, 4>>)],
      [version |-> <<1, 20, 1>>, config |-> Configure(<<1, 20, 1>>)],
      [version |-> <<1, 16, 5>>, config |-> ConfigureUnified(<<1, 16, 5>>)] }

InitReconcile ==
    /\ pc = "processNeoForgeModule"
    /\ \E c \in ReconcileConfigs :
          /\ minecraftVersion = c.version
          /\ generatedFiles = c.config.generatedFiles
          /\ wildcardsInUse = c.config.wildcardsInUse
    /\ neoforgeVersion = <<47, 1, 79>>
    /\ discardOutput = FALSE
    /\ invalidateCache = FALSE
    /\ strategy = "NeoForgeGradle3Adapter"
    /\ advisory = FALSE
    /\ installerLocal = TRUE
    /\ cacheExists = TRUE
    /\ \E g \in GameArguments :
          /\ cacheManifest = <<[game |-> g, libraries |-> <<>>]>>
          /\ versionManifest = cacheManifest
          /\ cacheFiles \in SUBSET ExpectedOutput(generatedFiles, cacheManifest[1])
    /\ permanent = {VersionManifestDest}
    /\ exitCode = -1
    /\ manifestModule = <<Module(ArtifactVersion, "version.json", "VersionManifest",
                                 "unset", VersionManifestPath)>>
    /\ doInstall = FALSE
    /\ mdls = <<>>
    /\ idx = 0
    /\ neoforgeModule = <<>>
    /\ err = "none"
    /\ errPaths = <<>>
    /\ log = <<>>
    /\ localStore = {}
    /\ remotePacked = {}
    /\ embeddedManifest = <<>>
    /\ run = 1
    /\ firstModule = <<>>
    /\ tempDir = NoTempDir
    /\ postProcessQueue = <<>>
    /\ tmpFiles = <<>>
    /\ accumulator = <<>>
    /\ suspended = <<>>
    /\ previous = <<>>

NextReconcile ==
    \/ BeginNeoForgeModule
    \/ ReconcileEntry
    \/ FinishNeoForgeModule

SpecReconcile == InitReconcile /\ [][NextReconcile]_vars

----------------------------------------------------------------------------
(* The installer-mediated scenario of 1.20.4: the installer has closed and   *)
(* left versions/<name>/<name>.json declaring the loader's own library and   *)
(* two dependency libraries, and below libraries/ all the files expected, or *)
(* all but one.                                                              *)

ScenarioVersion == <<1, 20, 4>>
ScenarioLoaderVersion == <<20, 4, 80>>

ScenarioLibraryNames == <<"neoforge", "libA", "libB">>

ScenarioManifests ==
    {[game |-> g,
      libraries |-> [i \in 1..Len(ScenarioLibraryNames) |->
                        [name |-> ScenarioLibraryNames[i], url |-> u[i]]]] :
        g \in GameArguments, u \in [1..Len(ScenarioLibraryNames) -> BOOLEAN]}

InitScenario ==
    /\ pc = "verify"
    /\ minecraftVersion = ScenarioVersion
    /\ neoforgeVersion = ScenarioLoaderVersion
    /\ discardOutput \in BOOLEAN
    /\ invalidateCache = FALSE
    /\ strategy = "NeoForgeGradle3Adapter"
    /\ advisory = FALSE
    /\ generatedFiles = Configure(ScenarioVersion).generatedFiles
    /\ wildcardsInUse = Configure(ScenarioVersion).wildcardsInUse
    /\ installerLocal = TRUE
    /\ cacheExists = TRUE
    /\ \E m \in ScenarioManifests :
          /\ cacheManifest = <<m>>
          /\ \E f \in {ExpectedOutput(generatedFiles, m)} \cup
                       {ExpectedOutput(generatedFiles, m) \ {p} :
                           p \in ExpectedOutput(generatedFiles, m)} :
                cacheFiles = {WorkingInstaller, LauncherProfiles} \cup f
    /\ permanent = {}
    /\ exitCode \in ExitCodes
    /\ versionManifest = <<>>
    /\ manifestModule = <<>>
    /\ doInstall = TRUE
    /\ mdls = <<>>
    /\ idx = 0
    /\ neoforgeModule = <<>>
    /\ err = "none"
    /\ errPaths = <<>>
    /\ log = SelectImpl(NEOFORGE_ADAPTER_IMPL, ScenarioVersion,
                        ScenarioLoaderVersion).trace
             \o <<Op("checkSecurity", NoPath), Op("mkdirs", CacheDir),
                  Op("copy", WorkingInstaller), Op("writeFile", LauncherProfiles),
                  Op("spawn", WorkingInstaller), Op("close", WorkingInstaller)>>
    /\ localStore = {}
    /\ remotePacked = {}
    /\ embeddedManifest = <<>>
    /\ run = 1
    /\ firstModule = <<>>
    /\ tempDir = NoTempDir
    /\ postProcessQueue = <<>>
    /\ tmpFiles = <<>>
    /\ accumulator = <<>>
    /\ suspended = <<>>
    /\ previous = <<>>

NextScenario ==
    \/ VerifyInstallerRan
    \/ ProcessVersionManifest
    \/ BeginNeoForgeModule
    \/ ReconcileEntry
    \/ FinishNeoForgeModule
    \/ ProcessLibrary
    \/ Finish

SpecScenario == InitScenario /\ [][NextScenario]_vars

----------------------------------------------------------------------------
(* Direct extraction: the library repository, hashes and descriptors *)

\* Most ordinary library records of an embedded manifest.
MaxDirectLibs == 1

\* The bytes the remote repository serves for a path, and other bytes a local
\* file of that path can hold.
RemoteBytes(path) == <<"fresh", path>>
StaleBytes(path) == <<"stale", path>>

\* createHash('sha1').update(buf).digest('hex')
Sha1(bytes) == <<"sha1", bytes>>

\* createHash('md5').update(buf).digest('hex')
Md5(bytes) == <<"md5", bytes>>

\* BaseResolver.generateArtifact: the descriptor of a buffer.
GenerateArtifact(bytes, path) == [readFrom |-> path, MD5 |-> Md5(bytes)]

\* libRepo.artifactExists / readFile on the library repository.
ArtifactExists(store, path) == \E f \in store : f.path = path

ReadFile(store, path) == (CHOOSE f \in store : f.path = path).bytes

\* What a download leaves in the repository: the remote bytes at the path.
Downloaded(store, path) ==
    {f \in store : f.path # path} \cup {[path |-> path, bytes |-> RemoteBytes(path)]}

\* A library name <<group, artifact, version>>; lib.name.startsWith of a
\* prefix 'group:artifact:'.
StartsWith(name, prefix) == name[1] = prefix[1] /\ name[2] = prefix[2]

\* libRepo.getArtifactById(lib.name, extension)
ArtifactById(name, extension) == <<name[1], name[2], <<name[3]>>, "", extension>>

\* MavenUtil.mavenComponentsToIdentifier of a library name and an extension.
ProperId(name, extension) == <<name[1], name[2], <<name[3]>>, "", extension>>

\* libRepo.getLocalNeoForge(this.artifactVersion, 'universal')
UniversalLocalPath ==
    <<"NEOFORGE_GROUP", "NEOFORGE_ARTIFACT", <<"artifactVersion">>, "universal">>

\* The names of library records: the records the loops of the two adapters
\* look for, and ordinary libraries.
NeoForgeMavenNeoForge == <<"net.neoforge.maven", "neoforge", "artifactVersion">>
NeoForgeMavenNeo == <<"net.neoforge.maven", "neo", "artifactVersion">>
NeoForgeNeoForge == <<"net.neoforge", "neoforge", "artifactVersion">>
DirectLibNames == << <<"library", "libA", "1.0">>, <<"library", "libB", "1.0">>,
                     <<"library", "libC", "1.0">> >>

\* A module of the direct pipelines.
DirectModule(id, name, type, artifact) ==
    [id |-> id, name |-> name, type |-> type, classpath |-> "unset",
     artifact |-> artifact, subModules |-> <<>>]

----------------------------------------------------------------------------
(* Direct extraction: the manifests inside the jars and what the repositories *)
(* hold when a run starts                                                     *)

\* A library record of an embedded manifest: url and checksums are those of
\* VersionManifestFG2, sha1 is downloads.artifact.sha1 of VersionManifestFG3.
LibraryRecord(name, url, checksums, sha1) ==
    [name |-> name, url |-> url, checksums |-> checksums, sha1 |-> sha1]

\* A record together with the local files of the library and whether the
\* remote repository has its compressed form.
DirectCase(lib, files, packed) == [lib |-> lib, files |-> files, packed |-> packed]

\* The plain file a repository can hold for a path: none, the bytes the
\* remote serves, other bytes.
LocalFiles(path) ==
    { {}, {[path |-> path, bytes |-> RemoteBytes(path)]},
      {[path |-> path, bytes |-> StaleBytes(path)]} }

\* lib.checksums: null, one checksum (of the remote bytes or of other
\* bytes), two checksums.
NoChecksums == [defined |-> FALSE, list |-> <<>>]

Checksums(list) == [defined |-> TRUE, list |-> list]

ChecksumLists(path) ==
    { NoChecksums, Checksums(<<Sha1(RemoteBytes(path))>>),
      Checksums(<<Sha1(StaleBytes(path))>>),
      Checksums(<<Sha1(RemoteBytes(path)), Sha1(StaleBytes(path))>>) }

\* downloads.artifact.sha1 of a record that has none.
NoSha1 == <<"sha1", <<"none">>>>

\* An ordinary library of a manifest of the older adapter. A record without
\* url has no compressed form; a compressed local file came from the remote.
CasesFG2(name) ==
    LET jar == ArtifactById(name, "jar")
        pack == ArtifactById(name, "jar.pack.xz")
        packFile == {[path |-> pack, bytes |-> RemoteBytes(pack)]}
    IN  {DirectCase(LibraryRecord(name, x[1], x[2], NoSha1),
                    x[3] \cup (IF x[4] THEN packFile ELSE {}), x[5]) :
            x \in {y \in {Null, "url"} \X ChecksumLists(jar) \X LocalFiles(jar)
                           \X BOOLEAN \X BOOLEAN :
                       /\ y[1] = Null => (~y[4] /\ ~y[5])
                       /\ y[4] => y[5]}}

\* An ordinary library of a manifest of the newer adapter.
CasesFG3(name) ==
    LET jar == ArtifactById(name, "jar")
    IN  {DirectCase(LibraryRecord(name, "url", NoChecksums, h), f, FALSE) :
            h \in {Sha1(RemoteBytes(jar)), Sha1(StaleBytes(jar))},
            f \in LocalFiles(jar)}

DirectCases(impl, name) ==
    IF impl = "NeoForgeGradle2Adapter" THEN CasesFG2(name) ELSE CasesFG3(name)

\* The loader's own record in a manifest of the newer adapter: its sha1 is
\* that of the universal jar the remote serves, or another.
SelfCasesFG3 ==
    LET jar == ArtifactById(NeoForgeMavenNeoForge, "jar")
    IN  {DirectCase(LibraryRecord(NeoForgeMavenNeoForge, "url", NoChecksums, h), f, FALSE) :
            h \in {Sha1(RemoteBytes(UniversalLocalPath)),
                   Sha1(StaleBytes(UniversalLocalPath))},
            f \in {{}, {[path |-> jar, bytes |-> RemoteBytes(jar)]}}}

\* A record of the group net.neoforge.maven and the artifact neo.
NeoCase ==
    DirectCase(LibraryRecord(NeoForgeMavenNeo, "url", NoChecksums,
                             Sha1(RemoteBytes(ArtifactById(NeoForgeMavenNeo, "jar")))),
               {}, FALSE)

\* The loader's own record in a manifest of the older adapter.
SelfCaseFG2 ==
    DirectCase(LibraryRecord(NeoForgeNeoForge, Null, NoChecksums, NoSha1), {}, FALSE)

\* The records a manifest starts with.
DirectHeads(impl) ==
    IF impl = "NeoForgeGradle2Adapter"
    THEN {<<>>, <<SelfCaseFG2>>}
    ELSE {<<>>, <<NeoCase>>} \cup {<<c>> : c \in SelfCasesFG3}
         \cup {<<c, NeoCase>> : c \in SelfCasesFG3}

\* The lists of at most n ordinary libraries.
RECURSIVE DirectLists(_, _)
DirectLists(impl, n) ==
    IF n = 0
    THEN {<<>>}
    ELSE LET shorter == DirectLists(impl, n - 1)
         IN  shorter \cup
             {Append(l, c) : l \in {x \in shorter : Len(x) = n - 1},
                             c \in DirectCases(impl, DirectLibNames[n])}

\* What a run finds: the manifest inside the jar, the files of the library
\* repository, and the libraries the remote has compressed.
DirectEnvironments(impl) ==
    {[manifest |-> <<[libraries |-> [i \in 1..Len(cases) |-> cases[i].lib]]>>,
      files |-> main \cup UNION {cases[i].files : i \in 1..Len(cases)},
      packed |-> {cases[i].lib.name : i \in {j \in 1..Len(cases) : cases[j].packed}}] :
        cases \in {h \o l : h \in DirectHeads(impl),
                             l \in DirectLists(impl, MaxDirectLibs)},
        main \in LocalFiles(UniversalLocalPath)}
    \cup {[manifest |-> <<>>, files |-> main, packed |-> {}] :
             main \in LocalFiles(UniversalLocalPath)}

\* The (game version, loader version) pairs resolved directly: one for the
\* older adapter, one for the newer adapter with no generated files.
DirectTargets ==
    { << <<1, 12, 2>>, <<14, 23, 5, 2847>> >>,
      << <<1, 16, 5>>, <<36, 2, 39>> >> }

\* Most consecutive runs of one resolution.
MaxRuns == 2

InitDirect ==
    /\ pc = "constructed"
    /\ \E t \in DirectTargets :
          /\ minecraftVersion = t[1]
          /\ neoforgeVersion = t[2]
    /\ strategy = SelectImpl(NEOFORGE_ADAPTER_IMPL, minecraftVersion,
                             neoforgeVersion).impl
    /\ discardOutput = FALSE
    /\ invalidateCache = FALSE
    /\ advisory \in CheckSecurity(minecraftVersion, neoforgeVersion)
    /\ generatedFiles = IF strategy = "NeoForgeGradle3Adapter"
                        THEN Configure(minecraftVersion).generatedFiles
                        ELSE <<>>
    /\ wildcardsInUse = <<>>
    /\ installerLocal \in IF strategy = "NeoForgeGradle3Adapter" THEN BOOLEAN ELSE {FALSE}
    /\ cacheExists = FALSE
    /\ cacheFiles = {}
    /\ cacheManifest = <<>>
    /\ permanent = {}
    /\ exitCode = -1
    /\ versionManifest = <<>>
    /\ manifestModule = <<>>
    /\ doInstall = TRUE
    /\ mdls = <<>>
    /\ idx = 0
    /\ neoforgeModule = <<>>
    /\ err = "none"
    /\ errPaths = <<>>
    /\ log = SelectImpl(NEOFORGE_ADAPTER_IMPL, minecraftVersion, neoforgeVersion).trace
             \o <<Op("checkSecurity", NoPath)>>
    /\ \E e \in DirectEnvironments(strategy) :
          /\ embeddedManifest = e.manifest
          /\ localStore = e.files
          /\ remotePacked = e.packed
    /\ run = 1
    /\ firstModule = <<>>
    /\ tempDir = NoTempDir
    /\ postProcessQueue = <<>>
    /\ tmpFiles = <<>>
    /\ accumulator = <<>>
    /\ suspended = <<>>
    /\ previous = <<>>

----------------------------------------------------------------------------
(* NeoForgeGradle3Adapter.processWithoutInstaller: manifest and universal jar *)

\* What the direct steps leave alone.
constructedVars ==
    <<minecraftVersion, neoforgeVersion, discardOutput, invalidateCache, strategy,
      advisory, generatedFiles, wildcardsInUse, installerLocal, cacheExists,
      cacheFiles, cacheManifest, exitCode, manifestModule, doInstall, mdls,
      errPaths, remotePacked, embeddedManifest, run, firstModule, suspended,
      previous>>

\* Whether a download returns or rejects.
DownloadOutcomes == {"ok", "error"}

\* versionManifest.libraries.find(val => val.name.startsWith(
\* 'net.neoforge.maven:neoforge:')): the index of the record, 0 without one.
FindNeoForgeMdl(libraries) ==
    LET found == {i \in 1..Len(libraries) :
                     StartsWith(libraries[i].name, NeoForgeMavenNeoForge)}
    IN  IF found = {} THEN 0 ELSE CHOOSE i \in found : \A j \in found : i <= j

\* version.json is read out of the installer jar and written to the version
\* repository, and the loader's own record is looked up.
ExtractManifest ==
    /\ pc = "processWithoutInstaller"
    /\ IF embeddedManifest = <<>>
       THEN /\ Fail("ManifestNotFound")
            /\ UNCHANGED <<versionManifest, permanent, log>>
       ELSE /\ versionManifest' = embeddedManifest
            /\ permanent' = permanent \cup {VersionManifestDest}
            /\ log' = Append(log, Op("writeJson", VersionManifestDest))
            /\ IF FindNeoForgeMdl(embeddedManifest[1].libraries) = 0
               THEN Fail("NeoForgeEntryNotFound")
               ELSE pc' = "universal" /\ UNCHANGED err
    /\ UNCHANGED <<idx, neoforgeModule, localStore>>
    /\ UNCHANGED constructedVars
    /\ UNCHANGED packVars

\* A second check, of the bytes a download left.
AcceptsDownloadedIfMatching(bytes, sha1) == Sha1(bytes) = sha1

\* The bytes read after a download are used as they are: neither loop nor
\* the check of the universal jar compares them with anything.
AcceptsDownloaded(bytes, sha1) == TRUE

\* A check of the universal jar that takes any local copy.
UniversalReusedIfPresent(store, sha1) == ArtifactExists(store, UniversalLocalPath)

\* The local universal jar is used: it exists and its SHA-1 is the one of the
\* loader's record.
UniversalReused(store, sha1) ==
    /\ ArtifactExists(store, UniversalLocalPath)
    /\ Sha1(ReadFile(store, UniversalLocalPath)) = sha1

\* The root module and its version.json child.
DirectRoot(bytes) ==
    [DirectModule(Identifier([group |-> "NEOFORGE_GROUP", artifact |-> "NEOFORGE_ARTIFACT",
                              version |-> ArtifactVersion], "universal"),
                  "Minecraft NeoForge", "NeoForgeHosted",
                  GenerateArtifact(bytes, UniversalLocalPath))
        EXCEPT !.subModules =
            <<DirectModule(ArtifactVersion, "version.json", "VersionManifest",
                           GenerateArtifact(<<"json", versionManifest[1]>>,
                                            VersionManifestDest))>>]

\* The universal jar is checked against the record's sha1, downloaded when it
\* is missing or differs, and wrapped as the root with the version.json module.
ResolveUniversal ==
    /\ pc = "universal"
    /\ LET neoforgeMdl ==
               versionManifest[1].libraries[FindNeoForgeMdl(versionManifest[1].libraries)]
       IN  IF UniversalReused(localStore, neoforgeMdl.sha1)
           THEN /\ neoforgeModule' = <<DirectRoot(ReadFile(localStore, UniversalLocalPath))>>
                /\ log' = Append(log, Op("readFile", UniversalLocalPath))
                /\ idx' = 1
                /\ pc' = "directLibraries"
                /\ UNCHANGED <<localStore, err>>
           ELSE \E outcome \in DownloadOutcomes :
                   /\ log' = IF ArtifactExists(localStore, UniversalLocalPath)
                             THEN log \o <<Op("readFile", UniversalLocalPath),
                                           Op("download", UniversalLocalPath)>>
                             ELSE Append(log, Op("download", UniversalLocalPath))
                   /\ IF outcome = "error"
                      THEN /\ Fail("DownloadError")
                           /\ UNCHANGED <<localStore, neoforgeModule, idx>>
                      ELSE IF ~AcceptsDownloaded(RemoteBytes(UniversalLocalPath),
                                                 neoforgeMdl.sha1)
                      THEN /\ Fail("HashMismatch")
                           /\ localStore' = Downloaded(localStore, UniversalLocalPath)
                           /\ UNCHANGED <<neoforgeModule, idx>>
                      ELSE /\ localStore' = Downloaded(localStore, UniversalLocalPath)
                           /\ neoforgeModule' =
                                 <<DirectRoot(ReadFile(localStore', UniversalLocalPath))>>
                           /\ idx' = 1
                           /\ pc' = "directLibraries"
                           /\ UNCHANGED err
    /\ UNCHANGED <<versionManifest, permanent>>
    /\ UNCHANGED constructedVars
    /\ UNCHANGED packVars

----------------------------------------------------------------------------
(* NeoForgeGradle2Adapter.getNeoForgeByVersion: universal jar and manifest *)

\* The universal jar is downloaded when it is not in the repository,
\* version.json is read out of it, and the jar is wrapped as the root.
GetNeoForgeByVersion ==
    /\ pc = "constructed"
    /\ strategy = "NeoForgeGradle2Adapter"
    /\ \E outcome \in DownloadOutcomes :
          LET missing == ~ArtifactExists(localStore, UniversalLocalPath)
              store == IF missing THEN Downloaded(localStore, UniversalLocalPath)
                       ELSE localStore
          IN  /\ ~missing => outcome = "ok"
              /\ log' = IF missing THEN Append(log, Op("download", UniversalLocalPath))
                        ELSE log
              /\ IF outcome = "error"
                 THEN /\ Fail("DownloadError")
                      /\ UNCHANGED <<localStore, versionManifest, neoforgeModule, idx>>
                 ELSE /\ localStore' = store
                      /\ IF embeddedManifest = <<>>
                         THEN /\ Fail("ManifestNotFound")
                              /\ UNCHANGED <<versionManifest, neoforgeModule, idx>>
                         ELSE /\ versionManifest' = embeddedManifest
                              /\ neoforgeModule' =
                                    <<DirectModule(
                                        Identifier([group |-> "NEOFORGE_GROUP",
                                                    artifact |-> "NEOFORGE_ARTIFACT",
                                                    version |-> ArtifactVersion],
                                                   "universal"),
                                        "Minecraft NeoForge", "NeoForgeHosted",
                                        GenerateArtifact(
                                            ReadFile(store, UniversalLocalPath),
                                            UniversalLocalPath))>>
                              /\ idx' = 1
                              /\ pc' = "directLibraries"
                              /\ UNCHANGED err
    /\ UNCHANGED permanent
    /\ UNCHANGED constructedVars
    /\ UNCHANGED packVars

----------------------------------------------------------------------------
(* The library loops of getNeoForgeByVersion and processWithoutInstaller *)

\* The prefix of the records a loop passes over.
SkippedPrefix(impl) ==
    IF impl = "NeoForgeGradle2Adapter" THEN NeoForgeNeoForge ELSE NeoForgeMavenNeo

\* if (lib.name.startsWith(...)) continue
SkipsRecord(impl, lib) == StartsWith(lib.name, SkippedPrefix(impl))

\* An extension determination that looks for the plain file first.
DetermineExtensionPlainFirst(lib, store, packed) ==
    LET pack == ArtifactById(lib.name, "jar.pack.xz")
        jar == ArtifactById(lib.name, "jar")
    IN  IF lib.url = Null
        THEN [extension |-> "jar", trace |-> <<>>]
        ELSE IF ArtifactExists(store, jar)
        THEN [extension |-> "jar", trace |-> <<Op("artifactExists", jar)>>]
        ELSE IF ArtifactExists(store, pack)
        THEN [extension |-> "jar.pack.xz",
              trace |-> <<Op("artifactExists", jar), Op("artifactExists", pack)>>]
        ELSE [extension |-> "jar",
              trace |-> <<Op("artifactExists", jar), Op("artifactExists", pack),
                          Op("head", jar)>>]

\* NeoForgeGradle2Adapter.determineExtension: the extension, and the probes
\* made, in order.
DetermineExtension(lib, store, packed) ==
    LET pack == ArtifactById(lib.name, "jar.pack.xz")
        jar == ArtifactById(lib.name, "jar")
    IN  IF lib.url = Null
        THEN [extension |-> "jar", trace |-> <<>>]
        ELSE IF ArtifactExists(store, pack)
        THEN [extension |-> "jar.pack.xz", trace |-> <<Op("artifactExists", pack)>>]
        ELSE IF ArtifactExists(store, jar)
        THEN [extension |-> "jar",
              trace |-> <<Op("artifactExists", pack), Op("artifactExists", jar)>>]
        ELSE IF lib.name \in packed
        THEN [extension |-> "jar.pack.xz",
              trace |-> <<Op("artifactExists", pack), Op("artifactExists", jar),
                          Op("head", pack)>>]
        ELSE [extension |-> "jar",
              trace |-> <<Op("artifactExists", pack), Op("artifactExists", jar),
                          Op("head", pack), Op("head", jar)>>]

\* The extension a loop resolves a record with.
ExtensionOf(impl, lib, store, packed) ==
    IF impl = "NeoForgeGradle2Adapter"
    THEN DetermineExtension(lib, store, packed)
    ELSE [extension |-> "jar", trace |-> <<>>]

\* A download decision that compares every present file of the older adapter
\* with the first declared checksum.
QueueDownloadVerifiesAll(impl, lib, extension, store) ==
    LET localPath == ArtifactById(lib.name, extension)
    IN  IF ~ArtifactExists(store, localPath)
        THEN TRUE
        ELSE /\ lib.checksums.defined
             /\ Len(lib.checksums.list) >= 1
             /\ Sha1(ReadFile(store, localPath)) # lib.checksums.list[1]

\* A download decision that fetches every file again.
QueueDownloadAlways(impl, lib, extension, store) == TRUE

\* A download decision that trusts whatever file is there.
QueueDownloadIfMissing(impl, lib, extension, store) ==
    ~ArtifactExists(store, ArtifactById(lib.name, extension))

\* queueDownload after the verification: the file is missing, or its SHA-1 is
\* checked and differs. The older adapter checks a plain file against a list
\* of exactly one checksum; the newer one checks against downloads.artifact.sha1.
QueueDownload(impl, lib, extension, store) ==
    LET localPath == ArtifactById(lib.name, extension)
    IN  IF ~ArtifactExists(store, localPath)
        THEN TRUE
        ELSE LET sha1 == Sha1(ReadFile(store, localPath))
             IN  IF impl = "NeoForgeGradle2Adapter"
                 THEN /\ extension # "jar.pack.xz"
                      /\ lib.checksums.defined
                      /\ Len(lib.checksums.list) = 1
                      /\ sha1 # lib.checksums.list[1]
                 ELSE sha1 # lib.sha1

\* A loop that ends before its last record.
LoopDoneEarly(i, libraries) == i >= Len(libraries)

\* for (const lib of versionManifest.libraries): the loop has passed the last
\* record.
LoopDone(i, libraries) == i > Len(libraries)

\* A loop that queues no library.
PostProcessNever(extension) == FALSE

\* const postProcess = extension === 'jar.pack.xz'
PostProcess(extension) == extension = "jar.pack.xz"

\* The SHA-1 a record declares: lib.checksums[0] of a list of one in the
\* older adapter, downloads.artifact.sha1 in the newer one.
DeclaredSha1(impl, lib) ==
    IF impl = "NeoForgeGradle2Adapter"
    THEN IF lib.checksums.defined /\ Len(lib.checksums.list) = 1
         THEN lib.checksums.list[1]
         ELSE NoSha1
    ELSE lib.sha1

\* One iteration of the loop over versionManifest.libraries.
DirectLibrary ==
    /\ pc = "directLibraries"
    /\ idx <= Len(versionManifest[1].libraries)
    /\ LET lib == versionManifest[1].libraries[idx]
       IN  IF SkipsRecord(strategy, lib)
           THEN /\ idx' = idx + 1
                /\ UNCHANGED <<pc, err, localStore, neoforgeModule, log,
                               postProcessQueue>>
           ELSE LET e == ExtensionOf(strategy, lib, localStore, remotePacked)
                    localPath == ArtifactById(lib.name, e.extension)
                    present == ArtifactExists(localStore, localPath)
                    queueDownload == QueueDownload(strategy, lib, e.extension, localStore)
                    store == IF queueDownload THEN Downloaded(localStore, localPath)
                             ELSE localStore
                IN  \E outcome \in DownloadOutcomes :
                       /\ ~queueDownload => outcome = "ok"
                       /\ log' = log \o e.trace
                                     \o <<Op("artifactExists", localPath)>>
                                     \o (IF present THEN <<Op("readFile", localPath)>>
                                         ELSE <<>>)
                                     \o (IF queueDownload
                                         THEN <<Op("download", localPath)>> ELSE <<>>)
                       /\ IF outcome = "error"
                          THEN /\ Fail("DownloadError")
                               /\ UNCHANGED <<localStore, neoforgeModule, idx,
                                              postProcessQueue>>
                          ELSE IF /\ queueDownload
                                  /\ ~AcceptsDownloaded(ReadFile(store, localPath),
                                                        DeclaredSha1(strategy, lib))
                          THEN /\ Fail("HashMismatch")
                               /\ localStore' = store
                               /\ UNCHANGED <<neoforgeModule, idx, postProcessQueue>>
                          ELSE /\ localStore' = store
                               /\ neoforgeModule' =
                                     <<[neoforgeModule[1] EXCEPT !.subModules =
                                          Append(@, DirectModule(
                                              ProperId(lib.name, e.extension),
                                              lib.name[2], "Library",
                                              GenerateArtifact(ReadFile(store, localPath),
                                                               localPath)))]>>
                               /\ postProcessQueue' =
                                     IF PostProcess(e.extension)
                                     THEN Append(postProcessQueue,
                                                 [id |-> ProperId(lib.name, e.extension),
                                                  localPath |-> localPath])
                                     ELSE postProcessQueue
                               /\ idx' = idx + 1
                               /\ UNCHANGED <<pc, err>>
    /\ UNCHANGED <<versionManifest, permanent, tempDir, tmpFiles, accumulator>>
    /\ UNCHANGED constructedVars

\* repoStructure.getTempDirectory(): one directory for a repository root.
TempDir == <<"temp", "", <<>>, "">>

\* join(tempDir, basename(entry.localPath)): the file name has the artifact,
\* its version and the extension, and no directory of the group.
TmpFile(localPath) == <<"temp", localPath[2], localPath[3], "", localPath[5]>>

\* tmpFileName.substring(0, tmpFileName.indexOf('.pack.xz'))
WithoutPackXZ(path) == [path EXCEPT ![5] = "jar"]

\* copy(src, dest) into the scratch directory: a file of the same name is
\* overwritten.
CopyOverwrites(dir, path, bytes) ==
    [exists |-> TRUE,
     files |-> {f \in dir.files : f.path # path} \cup {[path |-> path, bytes |-> bytes]}]

\* What PackXZExtractWrapper leaves for a compressed file.
Unpacked(bytes) == <<"unpacked", bytes>>

\* extractUnpack(files): every scratch file named is replaced by its
\* unpacked form, under the name without .pack.xz.
ExtractUnpack(dir, paths) ==
    [dir EXCEPT !.files =
        {f \in @ : f.path \notin paths /\ WithoutPackXZ(f.path) \notin paths}
        \cup {[path |-> WithoutPackXZ(f.path), bytes |-> Unpacked(f.bytes)] :
                 f \in {g \in @ : g.path \in paths}}]

\* Whether a step of the post-processing returns or rejects.
PackOutcomes == {"ok", "error"}

\* What the steps of the post-processing leave alone.
packingVars ==
    <<versionManifest, permanent, idx, localStore, postProcessQueue>>

\* subModules.find(element => element.id === entry.id), el.artifact.MD5 =
\* entry.MD5: the first module of the id gets the hash, if there is one.
PatchFirst(subs, entry) ==
    LET found == {k \in 1..Len(subs) : subs[k].id = entry.id}
    IN  IF found = {}
        THEN subs
        ELSE LET k == CHOOSE i \in found : \A j \in found : i <= j
             IN  [subs EXCEPT ![k].artifact.MD5 = entry.MD5]

\* The loop over the entries processPackXZFiles returned, in order.
RECURSIVE PatchAll(_, _)
PatchAll(subs, entries) ==
    IF entries = <<>>
    THEN subs
    ELSE PatchAll(PatchFirst(subs, Head(entries)), Tail(entries))

\* processPackXZFiles is entered after the library loop. With an empty queue
\* it returns at once and getNeoForgeByVersion returns the tree; otherwise
\* the scratch directory is removed if it exists and created.
ProcessPackXZFiles ==
    /\ pc = "directLibraries"
    /\ strategy = "NeoForgeGradle2Adapter"
    /\ LoopDone(idx, versionManifest[1].libraries)
    /\ IF postProcessQueue = <<>>
       THEN /\ pc' = "done"
            /\ UNCHANGED <<tempDir, log>>
       ELSE /\ pc' = "packCopy"
            /\ tempDir' = [exists |-> TRUE, files |-> {}]
            /\ log' = log \o <<Op("pathExists", TempDir)>>
                          \o (IF tempDir.exists THEN <<Op("remove", TempDir)>> ELSE <<>>)
                          \o <<Op("mkdirs", TempDir)>>
    /\ UNCHANGED <<neoforgeModule, err, tmpFiles, accumulator>>
    /\ UNCHANGED packingVars
    /\ UNCHANGED constructedVars

\* One iteration of the first loop of processPackXZFiles: a queued file is
\* copied into the scratch directory.
PackCopy ==
    /\ pc = "packCopy"
    /\ Len(tmpFiles) < Len(postProcessQueue)
    /\ LET entry == postProcessQueue[Len(tmpFiles) + 1]
           tmpFile == TmpFile(entry.localPath)
       IN  /\ log' = Append(log, Op("copy", tmpFile))
           /\ \E outcome \in PackOutcomes :
                 IF outcome = "error"
                 THEN /\ Fail("CopyError")
                      /\ UNCHANGED <<tempDir, tmpFiles>>
                 ELSE /\ tempDir' = CopyOverwrites(tempDir, tmpFile,
                                                   ReadFile(localStore, entry.localPath))
                      /\ tmpFiles' = Append(tmpFiles, tmpFile)
                      /\ UNCHANGED <<pc, err>>
    /\ UNCHANGED <<neoforgeModule, accumulator>>
    /\ UNCHANGED packingVars
    /\ UNCHANGED constructedVars

\* new PackXZExtractWrapper().extractUnpack(files): one call for the batch.
PackExtract ==
    /\ pc = "packCopy"
    /\ Len(tmpFiles) = Len(postProcessQueue)
    /\ log' = Append(log, Op("extractUnpack", TempDir))
    /\ \E outcome \in PackOutcomes :
          IF outcome = "error"
          THEN /\ Fail("UnpackError")
               /\ UNCHANGED tempDir
          ELSE /\ tempDir' = ExtractUnpack(tempDir, {tmpFiles[i] : i \in 1..Len(tmpFiles)})
               /\ pc' = "packRead"
               /\ UNCHANGED err
    /\ UNCHANGED <<neoforgeModule, tmpFiles, accumulator>>
    /\ UNCHANGED packingVars
    /\ UNCHANGED constructedVars

\* One iteration of the second loop of processPackXZFiles: the unpacked file
\* of an entry is read and its MD5 is pushed.
PackRead ==
    /\ pc = "packRead"
    /\ Len(accumulator) < Len(postProcessQueue)
    /\ LET entry == postProcessQueue[Len(accumulator) + 1]
           tmpFile == WithoutPackXZ(TmpFile(entry.localPath))
       IN  /\ log' = Append(log, Op("readFile", tmpFile))
           /\ \E outcome \in PackOutcomes :
                 IF outcome = "error" \/ ~ArtifactExists(tempDir.files, tmpFile)
                 THEN /\ Fail("ReadError")
                      /\ UNCHANGED accumulator
                 ELSE /\ accumulator' =
                            Append(accumulator,
                                   [id |-> entry.id,
                                    MD5 |-> Md5(ReadFile(tempDir.files, tmpFile))])
                      /\ UNCHANGED <<pc, err>>
    /\ UNCHANGED <<neoforgeModule, tempDir, tmpFiles>>
    /\ UNCHANGED packingVars
    /\ UNCHANGED constructedVars

\* The end of processPackXZFiles and of getNeoForgeByVersion: the scratch
\* directory is removed, the modules of the entries returned get their MD5,
\* and the tree is returned.
PackReturn ==
    /\ pc = "packRead"
    /\ Len(accumulator) = Len(postProcessQueue)
    /\ tempDir' = NoTempDir
    /\ log' = Append(log, Op("remove", TempDir))
    /\ neoforgeModule' =
          <<[neoforgeModule[1] EXCEPT !.subModules = PatchAll(@, accumulator)]>>
    /\ pc' = "done"
    /\ UNCHANGED <<err, tmpFiles, accumulator>>
    /\ UNCHANGED packingVars
    /\ UNCHANGED constructedVars

\* The end of processWithoutInstaller: the tree is returned.
ReturnModule ==
    /\ pc = "directLibraries"
    /\ strategy = "NeoForgeGradle3Adapter"
    /\ LoopDone(idx, versionManifest[1].libraries)
    /\ pc' = "done"
    /\ UNCHANGED <<versionManifest, permanent, idx, err, localStore, neoforgeModule, log>>
    /\ UNCHANGED constructedVars
    /\ UNCHANGED packVars

\* The same resolution is run again, by an adapter constructed anew, on the
\* repository the run before left.
SecondRun ==
    /\ pc = "done"
    /\ run < MaxRuns
    /\ run' = run + 1
    /\ firstModule' = neoforgeModule
    /\ neoforgeModule' = <<>>
    /\ versionManifest' = <<>>
    /\ idx' = 0
    /\ postProcessQueue' = <<>>
    /\ tmpFiles' = <<>>
    /\ accumulator' = <<>>
    /\ log' = SelectImpl(NEOFORGE_ADAPTER_IMPL, minecraftVersion, neoforgeVersion).trace
               \o <<Op("checkSecurity", NoPath)>>
    /\ pc' = "constructed"
    /\ UNCHANGED <<minecraftVersion, neoforgeVersion, discardOutput, invalidateCache,
                   strategy, advisory, generatedFiles, wildcardsInUse, installerLocal,
                   cacheExists, cacheFiles, cacheManifest, permanent, exitCode,
                   manifestModule, doInstall, mdls, err, errPaths, localStore,
                   remotePacked, embeddedManifest, tempDir, suspended, previous>>

----------------------------------------------------------------------------
(* getNeoForgeByVersion on manifests that queue several compressed libraries *)

\* Longest library list of a manifest of the older adapter here.
MaxPackLibs == 2

\* Library names: two of one group, and one of another group with the
\* artifact and the version of the first, so the same file name.
PackLibNames ==
    { <<"library", "libA", "1.0">>, <<"library", "libB", "1.0">>,
      <<"other", "libA", "1.0">> }

\* A record with its files: the compressed file is in the repository, the
\* plain file is, or neither is and the remote has the compressed one.
PackCases(name) ==
    LET jar == ArtifactById(name, "jar")
        pack == ArtifactById(name, "jar.pack.xz")
        lib == LibraryRecord(name, "url", NoChecksums, NoSha1)
    IN  { DirectCase(lib, {[path |-> pack, bytes |-> RemoteBytes(pack)]}, TRUE),
          DirectCase(lib, {[path |-> jar, bytes |-> RemoteBytes(jar)]}, FALSE),
          DirectCase(lib, {}, TRUE) }

\* The lists of at most n records, names repeated or not.
RECURSIVE PackLists(_)
PackLists(n) ==
    IF n = 0
    THEN {<<>>}
    ELSE LET shorter == PackLists(n - 1)
         IN  shorter \cup
             {Append(l, c) : l \in {x \in shorter : Len(x) = n - 1},
                             c \in UNION {PackCases(name) : name \in PackLibNames}}

\* What an earlier post-processing that failed has left in the scratch
\* directory.
LeftTempDir ==
    [exists |-> TRUE,
     files |-> {[path |-> TmpFile(ArtifactById(<<"library", "libA", "1.0">>, "jar")),
                 bytes |-> StaleBytes(ArtifactById(<<"library", "libA", "1.0">>, "jar"))]}]

InitPack ==
    /\ pc = "constructed"
    /\ minecraftVersion = <<1, 12, 2>>
    /\ neoforgeVersion = <<14, 23, 5, 2847>>
    /\ strategy = SelectImpl(NEOFORGE_ADAPTER_IMPL, minecraftVersion,
                             neoforgeVersion).impl
    /\ discardOutput = FALSE
    /\ invalidateCache = FALSE
    /\ advisory \in CheckSecurity(minecraftVersion, neoforgeVersion)
    /\ generatedFiles = <<>>
    /\ wildcardsInUse = <<>>
    /\ installerLocal = FALSE
    /\ cacheExists = FALSE
    /\ cacheFiles = {}
    /\ cacheManifest = <<>>
    /\ permanent = {}
    /\ exitCode = -1
    /\ versionManifest = <<>>
    /\ manifestModule = <<>>
    /\ doInstall = TRUE
    /\ mdls = <<>>
    /\ idx = 0
    /\ neoforgeModule = <<>>
    /\ err = "none"
    /\ errPaths = <<>>
    /\ log = SelectImpl(NEOFORGE_ADAPTER_IMPL, minecraftVersion, neoforgeVersion).trace
             \o <<Op("checkSecurity", NoPath)>>
    /\ \E cases \in PackLists(MaxPackLibs) :
          /\ embeddedManifest = <<[libraries |-> [i \in 1..Len(cases) |-> cases[i].lib]]>>
          /\ localStore = {[path |-> UniversalLocalPath,
                            bytes |-> RemoteBytes(UniversalLocalPath)]}
                          \cup UNION {cases[i].files : i \in 1..Len(cases)}
          /\ remotePacked = {cases[i].lib.name :
                                i \in {j \in 1..Len(cases) : cases[j].packed}}
    /\ run = 1
    /\ firstModule = <<>>
    /\ tempDir \in {NoTempDir, LeftTempDir}
    /\ postProcessQueue = <<>>
    /\ tmpFiles = <<>>
    /\ accumulator = <<>>
    /\ suspended = <<>>
    /\ previous = <<>>

NextPack ==
    \/ GetNeoForgeByVersion
    \/ DirectLibrary
    \/ ProcessPackXZFiles
    \/ PackCopy
    \/ PackExtract
    \/ PackRead
    \/ PackReturn

SpecPack == InitPack /\ [][NextPack]_vars

----------------------------------------------------------------------------
(* Two runs of the older adapter on one repository root. Each await of a   *)
(* run is a point where the other run's pending step can be taken: the     *)
(* steps of the run whose turn it is act on the variables of the run, the  *)
(* other run's variables are kept in suspended.                            *)

\* What a run holds in its own objects and locals; the repository, the remote
\* and the scratch directory are the disk's.
Local ==
    [pc |-> pc, neoforgeVersion |-> neoforgeVersion,
     embeddedManifest |-> embeddedManifest, versionManifest |-> versionManifest,
     neoforgeModule |-> neoforgeModule, idx |-> idx, err |-> err,
     postProcessQueue |-> postProcessQueue, tmpFiles |-> tmpFiles,
     accumulator |-> accumulator]

\* The run awaits and the other run's continuation is taken from the event
\* loop.
Yield ==
    /\ suspended # <<>>
    /\ suspended[1].pc \notin {"done", "failed"}
    /\ suspended' = <<Local>>
    /\ pc' = suspended[1].pc
    /\ neoforgeVersion' = suspended[1].neoforgeVersion
    /\ embeddedManifest' = suspended[1].embeddedManifest
    /\ versionManifest' = suspended[1].versionManifest
    /\ neoforgeModule' = suspended[1].neoforgeModule
    /\ idx' = suspended[1].idx
    /\ err' = suspended[1].err
    /\ postProcessQueue' = suspended[1].postProcessQueue
    /\ tmpFiles' = suspended[1].tmpFiles
    /\ accumulator' = suspended[1].accumulator
    /\ UNCHANGED <<minecraftVersion, discardOutput, invalidateCache, strategy,
                   advisory, generatedFiles, wildcardsInUse, installerLocal,
                   cacheExists, cacheFiles, cacheManifest, permanent, exitCode,
                   manifestModule, doInstall, mdls, errPaths, log, localStore,
                   remotePacked, run, firstModule, tempDir, previous>>

\* The libraries of the two runs: the first run's manifest has one library,
\* the second run's manifest has none, or one library of another name, with
\* the same file name or not.
SharedCases ==
    {<<a, b>> : a \in {<<c>> : c \in PackCases(<<"library", "libA", "1.0">>)},
               b \in {<<>>} \cup
                     {<<c>> : c \in PackCases(<<"library", "libB", "1.0">>) \cup
                                    PackCases(<<"other", "libA", "1.0">>)}}

InitShared ==
    /\ pc = "constructed"
    /\ minecraftVersion = <<1, 12, 2>>
    /\ neoforgeVersion = <<14, 23, 5, 2847>>
    /\ strategy = SelectImpl(NEOFORGE_ADAPTER_IMPL, minecraftVersion,
                             neoforgeVersion).impl
    /\ discardOutput = FALSE
    /\ invalidateCache = FALSE
    /\ advisory \in CheckSecurity(minecraftVersion, neoforgeVersion)
    /\ generatedFiles = <<>>
    /\ wildcardsInUse = <<>>
    /\ installerLocal = FALSE
    /\ cacheExists = FALSE
    /\ cacheFiles = {}
    /\ cacheManifest = <<>>
    /\ permanent = {}
    /\ exitCode = -1
    /\ versionManifest = <<>>
    /\ manifestModule = <<>>
    /\ doInstall = TRUE
    /\ mdls = <<>>
    /\ idx = 0
    /\ neoforgeModule = <<>>
    /\ err = "none"
    /\ errPaths = <<>>
    /\ log = <<>>
    /\ \E cases \in SharedCases :
          LET manifest(l) == <<[libraries |-> [i \in 1..Len(l) |-> l[i].lib]]>>
              both == cases[1] \o cases[2]
          IN  /\ embeddedManifest = manifest(cases[1])
              /\ suspended =
                    <<[pc |-> "constructed", neoforgeVersion |-> <<14, 23, 5, 2860>>,
                       embeddedManifest |-> manifest(cases[2]),
                       versionManifest |-> <<>>, neoforgeModule |-> <<>>, idx |-> 0,
                       err |-> "none", postProcessQueue |-> <<>>, tmpFiles |-> <<>>,
                       accumulator |-> <<>>]>>
              /\ localStore = {[path |-> UniversalLocalPath,
                                bytes |-> RemoteBytes(UniversalLocalPath)]}
                              \cup UNION {both[i].files : i \in 1..Len(both)}
              /\ remotePacked = {both[i].lib.name :
                                    i \in {j \in 1..Len(both) : both[j].packed}}
    /\ run = 1
    /\ firstModule = <<>>
    /\ tempDir = NoTempDir
    /\ postProcessQueue = <<>>
    /\ tmpFiles = <<>>
    /\ accumulator = <<>>
    /\ previous = <<>>

NextShared ==
    \/ GetNeoForgeByVersion
    \/ DirectLibrary
    \/ ProcessPackXZFiles
    \/ PackCopy
    \/ PackExtract
    \/ PackRead
    \/ PackReturn
    \/ Yield

SpecShared == InitShared /\ [][NextShared]_vars

----------------------------------------------------------------------------
(* The newer adapter on every game version it is configured for: the run   *)
(* through the installer and the run without it                            *)

\* Game versions 1.12 to 1.22, and around 1.20.3, with a loader version past
\* the last one of the older tooling.
ConfigureTargets ==
    {<< <<1, minor, 0>>, <<36, 2, 39>> >> : minor \in 12..22} \cup
    {<< <<1, 20, patch>>, <<36, 2, 39>> >> : patch \in 2..4}

\* What the run without the installer finds: an installer jar without a
\* manifest, or one whose manifest has the loader's own record and a second
\* record, with the universal jar in the repository or not.
ConfigureEnvironments ==
    {[manifest |-> <<>>, files |-> {}]} \cup
    {[manifest |-> <<[libraries |-> [i \in 1..Len(head) |-> head[i].lib]]>>,
      files |-> main \cup UNION {head[i].files : i \in 1..Len(head)}] :
        head \in {h \in DirectHeads("NeoForgeGradle3Adapter") : Len(h) = 2},
        main \in LocalFiles(UniversalLocalPath)}

InitConfigure ==
    /\ pc = "start"
    /\ \E t \in ConfigureTargets : minecraftVersion = t[1] /\ neoforgeVersion = t[2]
    /\ discardOutput = FALSE
    /\ invalidateCache = FALSE
    /\ strategy = "none"
    /\ advisory = FALSE
    /\ generatedFiles = <<>>
    /\ wildcardsInUse = <<>>
    /\ installerLocal \in BOOLEAN
    /\ cacheExists = FALSE
    /\ cacheFiles = {}
    /\ cacheManifest = <<>>
    /\ permanent = {}
    /\ exitCode = -1
    /\ versionManifest = <<>>
    /\ manifestModule = <<>>
    /\ doInstall = TRUE
    /\ mdls = <<>>
    /\ idx = 0
    /\ neoforgeModule = <<>>
    /\ err = "none"
    /\ errPaths = <<>>
    /\ log = <<>>
    /\ \E env \in ConfigureEnvironments :
          /\ Len(Configure(minecraftVersion).generatedFiles) > 0 =>
                env.manifest = <<>> /\ env.files = {}
          /\ embeddedManifest = env.manifest
          /\ localStore = env.files
          /\ remotePacked = {}
    /\ run = 1
    /\ firstModule = <<>>
    /\ tempDir = NoTempDir
    /\ postProcessQueue = <<>>
    /\ tmpFiles = <<>>
    /\ accumulator = <<>>
    /\ suspended = <<>>
    /\ previous = <<>>

NextConfigure ==
    \/ Next
    \/ ExtractManifest
    \/ ResolveUniversal
    \/ DirectLibrary
    \/ ReturnModule

SpecConfigure == InitConfigure /\ [][NextConfigure]_vars

----------------------------------------------------------------------------
(* The installer-mediated run and the run of the older adapter together *)

InitOrder == Init \/ InitPack

NextOrder == Next \/ NextPack

SpecOrder == InitOrder /\ [][NextOrder]_vars

NextDirect ==
    \/ ProcessLocalInstaller
    \/ ProcessDownloadInstaller
    \/ ProcessDownloadFails
    \/ ExtractManifest
    \/ ResolveUniversal
    \/ GetNeoForgeByVersion
    \/ DirectLibrary
    \/ ProcessPackXZFiles
    \/ PackCopy
    \/ PackExtract
    \/ PackRead
    \/ PackReturn
    \/ ReturnModule
    \/ SecondRun

SpecDirect == InitDirect /\ [][NextDirect]_vars

----------------------------------------------------------------------------
(* Every run, with each step taken once it can be: the installer process    *)
(* closes, and every file system call and download returns                  *)

LiveTargets ==
    { << <<1, 20, 4>>, <<20, 4, 80>> >>,
      << <<2, 0, 0>>, <<1, 0, 0>> >> }

\* A run through the installer from every cache an earlier run can leave, a
\* run no adapter accepts, and the runs of the older adapter.
InitLive ==
    \/ /\ Init
       /\ <<minecraftVersion, neoforgeVersion>> \in LiveTargets
    \/ InitPack

NextLive == Next \/ NextPack

SpecLive == InitLive /\ [][NextLive]_vars /\ WF_vars(NextLive)

----------------------------------------------------------------------------
(* Consecutive runs of one resolution through the installer *)

\* The same resolution is run again, by an adapter constructed anew with
\* flags of its own, on the cache directory the run before left. The run before
\* returned its tree or failed in verifyInstallerRan.
NextRun ==
    /\ pc = "done" \/ (pc = "failed" /\ err = "InstallerOutputMissing")
    /\ strategy = "NeoForgeGradle3Adapter"
    /\ Len(Configure(minecraftVersion).generatedFiles) > 0
    /\ run < MaxRuns
    /\ run' = run + 1
    /\ previous' = <<[pc |-> pc, err |-> err, discardOutput |-> discardOutput]>>
    /\ firstModule' = IF pc = "done" THEN neoforgeModule ELSE <<>>
    /\ discardOutput' \in BOOLEAN
    /\ invalidateCache' \in BOOLEAN
    /\ generatedFiles' = Configure(minecraftVersion).generatedFiles
    /\ wildcardsInUse' = Configure(minecraftVersion).wildcardsInUse
    /\ exitCode' = -1
    /\ versionManifest' = <<>>
    /\ manifestModule' = <<>>
    /\ doInstall' = TRUE
    /\ mdls' = <<>>
    /\ idx' = 0
    /\ neoforgeModule' = <<>>
    /\ err' = "none"
    /\ errPaths' = <<>>
    /\ log' = SelectImpl(NEOFORGE_ADAPTER_IMPL, minecraftVersion, neoforgeVersion).trace
               \o <<Op("checkSecurity", NoPath)>>
    /\ pc' = "constructed"
    /\ UNCHANGED <<minecraftVersion, neoforgeVersion, strategy, advisory,
                   installerLocal, cacheExists, cacheFiles, cacheManifest, permanent,
                   localStore, remotePacked, embeddedManifest, tempDir,
                   postProcessQueue, tmpFiles, accumulator, suspended>>

\* The first run starts on a machine with no installer output left behind.
InitConsecutive ==
    /\ Init
    /\ <<minecraftVersion, neoforgeVersion>> \in LiveTargets
    /\ ~cacheExists

NextConsecutive == Next \/ NextRun

SpecConsecutive == InitConsecutive /\ [][NextConsecutive]_vars

----------------------------------------------------------------------------
(* Properties *)

\* The first entry of a table that is for the version, "none" without one.
FirstMatch(table, version, libraryVersion) ==
    LET matching == {i \in 1..Len(table) : IsForVersion(table[i], version, libraryVersion)}
    IN  IF matching = {} THEN "none"
        ELSE table[CHOOSE i \in matching : \A j \in matching : i <= j]

\* The log restricted to one operation.
LogOf(op) == SelectSeq(log, LAMBDA e : e.op = op)

\* C1: selection returns the first entry of the family's table whose
\* isForVersion holds for the pair (so the kind is a function of the pair),
\* exactly that entry is constructed, and the predicates evaluated are those
\* of the table's entries up to it, in table order.
C1_FirstMatchSelected ==
    pc # "start" =>
        \A table \in Tables :
            /\ strategy = FirstMatch(table, minecraftVersion, neoforgeVersion)
            /\ strategy # "none" =>
                  /\ LogOf("new") = <<Op("new", <<strategy, "", <<>>, "">>)>>
                  /\ \E k \in 1..Len(table) :
                        /\ table[k] = strategy
                        /\ LogOf("isForVersion") =
                              [i \in 1..k |->
                                  Op("isForVersion", <<table[i], "", <<>>, "">>)]

\* The second entry of the table was selected for 1.12, the first one having
\* been rejected on the loader version.
C1_Witness ==
    /\ pc = "constructed"
    /\ strategy = "NeoForgeGradle3Adapter"
    /\ Minor(minecraftVersion) = 12
    /\ Len(LogOf("isForVersion")) = 2

\* C2: when no entry of the table is for the pair, selection fails with
\* NoStrategyFound, nothing is constructed, the security gate is not run and
\* nothing is done to the file system, the network or a process.
C2_NoStrategyFound ==
    (/\ pc # "start"
     /\ \A table \in Tables :
           FirstMatch(table, minecraftVersion, neoforgeVersion) = "none")
    => /\ pc = "failed"
       /\ err = "NoStrategyFound"
       /\ strategy = "none"
       /\ Ops(log) \subseteq {"isForVersion"}
       /\ permanent = {}
       /\ neoforgeModule = <<>>

C2_Witness ==
    /\ pc = "failed"
    /\ err = "NoStrategyFound"
    /\ Len(LogOf("isForVersion")) = 2

\* C3: when the manifest is absent at verification the run fails with
\* InstallerOutputMissing and the cache directory is gone; a run that failed
\* so returned no module tree and copied nothing to permanent storage.
C3_InstallerOutputMissing ==
    /\ [][(pc = "verify" /\ cacheManifest = <<>>)
            => (pc' = "failed" /\ err' = "InstallerOutputMissing"
                /\ ~cacheExists' /\ cacheFiles' = {} /\ cacheManifest' = <<>>)]_vars
    /\ [](err = "InstallerOutputMissing"
            => (pc = "failed" /\ ~cacheExists /\ cacheFiles = {}
                /\ neoforgeModule = <<>> /\ permanent = {}
                /\ "copy" \notin Ops(SelectSeq(log, LAMBDA e : e.path # WorkingInstaller))))

\* The installer ran, wrote no manifest, and the run failed.
C3_Witness ==
    /\ err = "InstallerOutputMissing"
    /\ "spawn" \in Ops(log)

\* C4: when the cache directory exists and invalidation is not requested the
\* cache check leaves the directory as it is and goes on without installing;
\* such a run never copies the installer, writes the profile or spawns.
C4_CacheHitDoesNotInstall ==
    /\ [][(pc = "processWithInstaller" /\ cacheExists /\ ~invalidateCache)
            => (~doInstall' /\ pc' # "stage"
                /\ UNCHANGED <<cacheExists, cacheFiles, cacheManifest, log>>)]_vars
    /\ [](~doInstall
            => (/\ Ops(log) \cap {"writeFile", "spawn", "close", "mkdirs"} = {}
                /\ \A i \in 1..Len(log) : log[i] # Op("copy", WorkingInstaller)))

\* A run on a cache hit returned its module tree.
C4_Witness ==
    /\ ~doInstall
    /\ pc = "done"

\* C5 as stated: a cache hit never ends in InstallerOutputMissing.
C5_CacheHitNeverFailsVerification ==
    ~doInstall => err # "InstallerOutputMissing"

\* C5 amended: on a cache hit the run goes from the cache check to the
\* verification of the installer output, skipping only stage-and-execute; the
\* verification fails with InstallerOutputMissing and removes the cached
\* directory exactly when the cached manifest is absent, and otherwise leaves
\* the directory alone and goes on to parse the manifest.
C5_CacheHitIsVerified ==
    /\ [][(pc = "processWithInstaller" /\ cacheExists /\ ~invalidateCache)
            => (pc' = "verify" /\ ~doInstall')]_vars
    /\ [][(pc = "verify" /\ ~doInstall)
            => IF cacheManifest = <<>>
               THEN pc' = "failed" /\ err' = "InstallerOutputMissing" /\ ~cacheExists'
               ELSE /\ pc' = "processVersionManifest"
                    /\ err' = "none"
                    /\ UNCHANGED <<cacheExists, cacheFiles, cacheManifest>>]_vars

\* A cache hit ended in InstallerOutputMissing, the directory removed.
C5_Witness ==
    /\ ~doInstall
    /\ err = "InstallerOutputMissing"
    /\ ~cacheExists

\* C6: when the cache directory exists and invalidation is requested the cache
\* check removes the whole directory; while the installer then runs the
\* directory holds the staged installer and the profile only, and the removal
\* came before the staging.
C6_InvalidateRemovesFirst ==
    /\ [][(pc = "processWithInstaller" /\ cacheExists /\ invalidateCache)
            => (pc' = "stage" /\ doInstall' /\ ~cacheExists'
                /\ cacheFiles' = {} /\ cacheManifest' = <<>>
                /\ log' = Append(log, Op("remove", CacheDir)))]_vars
    /\ [](pc = "installerRunning"
            => (/\ cacheExists
                /\ cacheFiles = {WorkingInstaller, LauncherProfiles}
                /\ cacheManifest = <<>>
                /\ \A i \in Positions(log, "remove") :
                      \A j \in Positions(log, "copy") : i < j))

\* The installer runs in a directory that was removed and staged anew.
C6_Witness ==
    /\ pc = "installerRunning"
    /\ invalidateCache
    /\ "remove" \in Ops(log)

\* C7: whatever the exit code, the run goes from the installer's close to the
\* verification, and after the installer ran the verification fails, with
\* InstallerOutputMissing, exactly when the manifest is absent.
C7_ExitCodeNotFatal ==
    /\ [][pc = "installerRunning" => (pc' = "verify" /\ err' = "none")]_vars
    /\ [][(pc = "verify" /\ doInstall)
            => ((pc' = "failed") <=> (cacheManifest = <<>>))
               /\ ((err' = "InstallerOutputMissing") <=> (cacheManifest = <<>>))
               /\ (pc' # "failed" => pc' = "processVersionManifest")]_vars

\* The installer closed with a non-zero code and left the manifest.
C7_Witness ==
    /\ pc = "verify"
    /\ doInstall
    /\ exitCode = 1
    /\ cacheManifest # <<>>

\* The first classifier of an entry whose path exists, 0 without one.
FirstExisting(entry, files) ==
    LET existing == {j \in 1..Len(entry.classifiers) :
                        TargetLocalPath(entry, entry.classifiers[j]) \in files}
    IN  IF existing = {} THEN 0
        ELSE CHOOSE j \in existing : \A k \in existing : j <= k

\* The modules of a list built for an entry.
ModulesOf(entry, modules) == {k \in 1..Len(modules) : modules[k].name = entry.name}

\* The entries the loop of processNeoForgeModule has been through.
Reconciled(i) == i < idx \/ (err = "RequiredArtifactMissing" /\ i = idx)

\* C8: during reconciliation every entry gone through has at most one module;
\* it has one exactly when one of its classifier paths exists, built from the
\* first such path in template order; the classifiers probed are those up to
\* that one, and only that one is copied. Entries not reached have none.
C8_FirstClassifierWins ==
    (pc = "entries" \/ err = "RequiredArtifactMissing") =>
        \A i \in 1..Len(generatedFiles) :
            LET entry == generatedFiles[i]
                first == FirstExisting(entry, cacheFiles)
                mine == ModulesOf(entry, mdls)
                path(j) == TargetLocalPath(entry, entry.classifiers[j])
                in(op, j) == \E n \in 1..Len(log) : log[n] = Op(op, path(j))
            IN  IF Reconciled(i)
                THEN /\ Cardinality(mine) <= 1
                     /\ (first = 0) <=> (mine = {})
                     /\ \A k \in mine :
                           /\ mdls[k].id = Identifier(entry, entry.classifiers[first])
                           /\ mdls[k].artifact.readFrom = path(first)
                     /\ \A j \in 1..Len(entry.classifiers) :
                           /\ in("pathExists", j) <=> (first = 0 \/ j <= first)
                           /\ in("copy", j) <=> (j = first)
                           /\ (path(j) \in permanent) <=> (j = first)
                ELSE /\ mine = {}
                     /\ \A j \in 1..Len(entry.classifiers) : ~in("pathExists", j)

\* Of the classifiers [slim, slim-stable] only the second is on disk, and the
\* module of the entry was built for it.
C8_Witness ==
    /\ pc = "entries"
    /\ \E i \in 1..Len(generatedFiles) :
          /\ Len(generatedFiles[i].classifiers) = 2
          /\ FirstExisting(generatedFiles[i], cacheFiles) = 2
          /\ \E k \in 1..Len(mdls) : mdls[k].id[4] = generatedFiles[i].classifiers[2]

\* C9: for an entry none of whose classifier paths exists, the loop goes on
\* to the next entry without a module when skipIfNotPresent is true, and fails
\* with RequiredArtifactMissing otherwise, naming the paths of the entry's
\* classifiers in template order; the tree then built has no module of an
\* entry without a file.
C9_MissingEntry ==
    /\ [][(/\ pc = "entries"
           /\ idx <= Len(generatedFiles)
           /\ FirstExisting(generatedFiles[idx], cacheFiles) = 0)
            => LET entry == generatedFiles[idx]
               IN  IF entry.skipIfNotPresent = "true"
                   THEN /\ pc' = "entries" /\ err' = "none"
                        /\ idx' = idx + 1
                        /\ UNCHANGED <<mdls, permanent, errPaths>>
                   ELSE /\ pc' = "failed" /\ err' = "RequiredArtifactMissing"
                        /\ errPaths' = [j \in 1..Len(entry.classifiers) |->
                                           TargetLocalPath(entry, entry.classifiers[j])]
                        /\ UNCHANGED <<mdls, permanent>>]_vars
    /\ [](pc = "libraries" =>
            \A i \in 1..Len(generatedFiles) :
                FirstExisting(generatedFiles[i], cacheFiles) = 0 =>
                    /\ generatedFiles[i].skipIfNotPresent = "true"
                    /\ neoforgeModule[1].name # generatedFiles[i].name
                    /\ ModulesOf(generatedFiles[i], neoforgeModule[1].subModules) = {})

\* The entry 'client data' was skipped, and a later entry with two classifiers
\* failed the run, both of its paths named.
C9_Witness ==
    /\ err = "RequiredArtifactMissing"
    /\ Len(errPaths) = 2
    /\ \E i \in 1..(idx - 1) :
          /\ generatedFiles[i].skipIfNotPresent = "true"
          /\ FirstExisting(generatedFiles[i], cacheFiles) = 0

\* C10: the root of a returned tree is the loader itself: of type loader-root,
\* with the loader's group, artifact and version as its id.
C10_RootIsLoader ==
    pc = "done" =>
        /\ neoforgeModule[1].type = "NeoForgeHosted"
        /\ neoforgeModule[1].id[1] = "NEOFORGE_GROUP"
        /\ neoforgeModule[1].id[2] = "NEOFORGE_ARTIFACT"
        /\ neoforgeModule[1].id[3] = ArtifactVersion

\* The indices of the entries one of whose classifier paths reached the
\* repository, in entry order.
ResolvedEntries ==
    SelectSeq([i \in 1..Len(generatedFiles) |-> i],
              LAMBDA i : \E j \in 1..Len(generatedFiles[i].classifiers) :
                  TargetLocalPath(generatedFiles[i], generatedFiles[i].classifiers[j])
                      \in permanent)

\* The library records of the parsed manifest that carry a url, in order.
UrlLibraries == SelectSeq(versionManifest[1].libraries, LAMBDA e : e.url)

\* C11: the tree a run returns has as root the module of the first resolved
\* entry, the only module of type loader-root; the root's children are the
\* version-manifest module, then the modules of the other resolved entries in
\* entry order, then the modules of the manifest's libraries in manifest
\* order; no child has children.
C11_ChildrenOrder ==
    pc = "done" =>
        LET root == neoforgeModule[1]
            kids == root.subModules
            r == ResolvedEntries
            l == UrlLibraries
        IN  /\ Len(r) >= 1
            /\ root.type = "NeoForgeHosted"
            /\ root.name = generatedFiles[r[1]].name
            /\ Len(kids) = Len(r) + Len(l)
            /\ kids[1] = manifestModule[1]
            /\ kids[1].type = "VersionManifest"
            /\ \A k \in 2..Len(r) :
                  /\ kids[k].type = "Library"
                  /\ kids[k].name = generatedFiles[r[k]].name
                  /\ kids[k].id[1] = generatedFiles[r[k]].group
                  /\ kids[k].id[2] = generatedFiles[r[k]].artifact
            /\ \A k \in 1..Len(l) :
                  /\ kids[Len(r) + k].type = "Library"
                  /\ kids[Len(r) + k].id = l[k].name
            /\ \A k \in 1..Len(kids) :
                  /\ kids[k].type # "NeoForgeHosted"
                  /\ kids[k].subModules = <<>>
                  /\ k > 1 => kids[k].type # "VersionManifest"

\* A tree with the manifest module, the modules of six more entries and the
\* modules of two libraries.
C11_Witness ==
    /\ pc = "done"
    /\ Len(ResolvedEntries) = 7
    /\ Len(UrlLibraries) = 2
    /\ Len(neoforgeModule[1].subModules) = 9

\* The children of a tree's root of one type.
KidsOfType(type) ==
    SelectSeq(neoforgeModule[1].subModules, LAMBDA k : k.type = type)

\* C12 as stated: in the scenario the root is of type loader-root, it has one
\* version-manifest child, and its library-typed children are, one for one,
\* the libraries the manifest declares.
C12_LibraryChildrenAreDeclared ==
    pc = "done" =>
        /\ neoforgeModule[1].type = "NeoForgeHosted"
        /\ Len(KidsOfType("VersionManifest")) = 1
        /\ Len(KidsOfType("Library")) = Len(versionManifest[1].libraries)
        /\ {k.id : k \in {KidsOfType("Library")[n] :
                              n \in 1..Len(KidsOfType("Library"))}}
              = {versionManifest[1].libraries[n].name :
                    n \in 1..Len(versionManifest[1].libraries)}

\* C12 amended: in the scenario the root is of type loader-root, it has one
\* version-manifest child, and its library-typed children are the modules of
\* the other resolved entries followed by one module for each declared
\* library that carries a url, in manifest order, each described from the
\* file at the library's path below the installer output; a declared library
\* without url has no module.
C12_ScenarioTree ==
    pc = "done" =>
        LET libs == KidsOfType("Library")
            r == ResolvedEntries
            l == UrlLibraries
        IN  /\ neoforgeModule[1].type = "NeoForgeHosted"
            /\ Len(KidsOfType("VersionManifest")) = 1
            /\ Len(libs) = (Len(r) - 1) + Len(l)
            /\ \A k \in 1..(Len(r) - 1) :
                  /\ libs[k].name = generatedFiles[r[k + 1]].name
                  /\ libs[k].artifact.readFrom \in EntryPaths(generatedFiles)
            /\ \A k \in 1..Len(l) :
                  /\ libs[Len(r) - 1 + k].id = l[k].name
                  /\ libs[Len(r) - 1 + k].artifact.readFrom = LibPath(l[k].name)
                  /\ LibPath(l[k].name) \in permanent
            /\ \A n \in 1..Len(versionManifest[1].libraries) :
                  LET e == versionManifest[1].libraries[n]
                  IN  ~e.url => \A k \in 1..Len(libs) : libs[k].id # e.name

\* The scenario's three libraries all carry a url and the tree was returned.
C12_Witness ==
    /\ pc = "done"
    /\ minecraftVersion = ScenarioVersion
    /\ Len(versionManifest[1].libraries) = 3
    /\ Len(UrlLibraries) = 3
    /\ Len(KidsOfType("Library")) = 9

\* The library records of the manifest before record n that carry a url.
UrlLibrariesBefore(n) ==
    SelectSeq(SubSeq(versionManifest[1].libraries, 1, n - 1), LAMBDA e : e.url)

\* C13: an iteration over a record with a url whose file is missing below the
\* installer output fails the run with ExpectedLibraryMissing, no module built
\* and nothing copied; over one whose file exists it appends one library
\* module described from that file and copies the file to the repository; over
\* a record without url it does nothing, not even an existence check. So the
\* modules built are those of the records with a url gone through, in manifest
\* order, and a failure is at the first record with a url and no file.
C13_LibraryReconciliation ==
    /\ [][(pc = "libraries" /\ idx <= Len(versionManifest[1].libraries))
            => LET e == versionManifest[1].libraries[idx]
                   path == LibPath(e.name)
               IN  IF ~e.url
                   THEN /\ pc' = "libraries" /\ err' = "none" /\ idx' = idx + 1
                        /\ UNCHANGED <<mdls, permanent, log>>
                   ELSE IF path \notin cacheFiles
                        THEN /\ pc' = "failed" /\ err' = "ExpectedLibraryMissing"
                             /\ UNCHANGED <<mdls, permanent, idx>>
                        ELSE /\ pc' = "libraries" /\ err' = "none" /\ idx' = idx + 1
                             /\ Len(mdls') = Len(mdls) + 1
                             /\ SubSeq(mdls', 1, Len(mdls)) = mdls
                             /\ mdls'[Len(mdls')].id = e.name
                             /\ mdls'[Len(mdls')].type = "Library"
                             /\ mdls'[Len(mdls')].artifact.readFrom = path
                             /\ permanent' = permanent \cup {path}
                             /\ log' = log \o <<Op("pathExists", path),
                                                Op("copy", path)>>]_vars
    /\ []((pc = "libraries" \/ err = "ExpectedLibraryMissing")
            => LET done == UrlLibrariesBefore(idx)
               IN  /\ Len(mdls) = Len(done)
                   /\ \A k \in 1..Len(done) :
                         /\ mdls[k].id = done[k].name
                         /\ LibPath(done[k].name) \in cacheFiles \cap permanent
                   /\ \A n \in 1..Len(versionManifest[1].libraries) :
                         LET e == versionManifest[1].libraries[n]
                         IN  ~e.url => \A i \in 1..Len(log) :
                                          log[i].path # LibPath(e.name)
                   /\ err = "ExpectedLibraryMissing"
                         => /\ versionManifest[1].libraries[idx].url
                            /\ LibPath(versionManifest[1].libraries[idx].name)
                                  \notin cacheFiles)

\* The first record has no url and was passed over; the file of the second is
\* missing and the run failed there.
C13_Witness ==
    /\ err = "ExpectedLibraryMissing"
    /\ idx = 2
    /\ ~versionManifest[1].libraries[1].url
    /\ mdls = <<>>

\* The errors of the steps after the verification of the installer output.
LateErrors ==
    {"ENOENT", "PlaceholderUnresolved", "RequiredArtifactMissing", "TypeError",
     "ExpectedLibraryMissing"}

\* C14: the step that returns the tree removes the installer output exactly
\* when discardOutput is set, as the last file system call of the run, the
\* manifest, the files of the resolved entries and the libraries with a url
\* being in the repository by then; a run that fails after the verification
\* leaves the installer output in place whatever the flag.
C14_Cleanup ==
    /\ [][(pc = "libraries" /\ pc' = "done")
            => /\ cacheExists
               /\ cacheExists' = ~discardOutput
               /\ IF discardOutput
                  THEN /\ cacheFiles' = {} /\ cacheManifest' = <<>>
                       /\ log' = Append(log, Op("remove", CacheDir))
                  ELSE UNCHANGED <<cacheFiles, cacheManifest, log>>
               /\ UNCHANGED permanent
               /\ VersionManifestDest \in permanent
               /\ \A i \in 1..Len(generatedFiles) :
                     FirstExisting(generatedFiles[i], cacheFiles) # 0
                       => TargetLocalPath(generatedFiles[i],
                             generatedFiles[i].classifiers[
                                 FirstExisting(generatedFiles[i], cacheFiles)])
                             \in permanent
               /\ \A k \in 1..Len(UrlLibraries) :
                     LibPath(UrlLibraries[k].name) \in permanent]_vars
    /\ [](pc = "done"
            => /\ cacheExists = ~discardOutput
               /\ discardOutput =>
                     /\ log[Len(log)] = Op("remove", CacheDir)
                     /\ \A i \in Positions(log, "copy") : i < Len(log)
               /\ ~discardOutput =>
                     \A i \in Positions(log, "remove") :
                        \A j \in Positions(log, "copy") : i < j)
    /\ [][(pc \in {"processVersionManifest", "processNeoForgeModule", "entries",
                    "libraries"} /\ pc' = "failed")
            => /\ err' \in LateErrors
               /\ cacheExists /\ UNCHANGED <<cacheExists, cacheFiles, cacheManifest>>
               /\ Positions(log', "remove") = Positions(log, "remove")]_vars

\* A run with discardOutput set failed in the library loop, the installer
\* output still in place.
C14_FailedWitness ==
    /\ err = "ExpectedLibraryMissing"
    /\ discardOutput
    /\ cacheExists
    /\ cacheManifest # <<>>

\* A run with discardOutput set returned its tree, the installer output gone.
C14_Witness ==
    /\ pc = "done"
    /\ discardOutput
    /\ ~cacheExists
    /\ Cardinality(permanent) >= 9

\* A coordinate or path whose version still holds the placeholder.
HasPlaceholder(path) == Includes(path[3], WILDCARD_MCP_VERSION)

\* The positions of the flag in an argument list.
FlagPositions(args) == {i \in 1..Len(args) : args[i] = "--fml.mcpVersion"}

\* C15: when the templates use the placeholder, processNeoForgeModule takes
\* its value from the argument after the first --fml.mcpVersion of the
\* manifest's game arguments and puts it in the place of the placeholder in
\* every template; without the flag, or with the flag as last argument, the
\* run fails with PlaceholderUnresolved before any lookup of an entry. No
\* existence check, read or copy is made at a path that holds the placeholder.
C15_PlaceholderResolved ==
    /\ [][(/\ pc = "processNeoForgeModule"
           /\ \E i \in 1..Len(generatedFiles) :
                 HasPlaceholder(TargetLocalPath(generatedFiles[i], "")))
            => LET args == versionManifest[1].game
                   at == FlagPositions(args)
                   first == CHOOSE i \in at : \A j \in at : i <= j
               IN  IF at = {} \/ first = Len(args)
                   THEN /\ pc' = "failed" /\ err' = "PlaceholderUnresolved"
                        /\ UNCHANGED <<log, permanent, mdls, generatedFiles>>
                   ELSE /\ pc' = "entries" /\ err' = "none"
                        /\ Len(generatedFiles') = Len(generatedFiles)
                        /\ \A i \in 1..Len(generatedFiles) :
                              LET old == generatedFiles[i].version
                                  new == generatedFiles'[i].version
                              IN  /\ Len(new) = Len(old)
                                  /\ \A k \in 1..Len(old) :
                                        new[k] = IF old[k] = WILDCARD_MCP_VERSION
                                                 THEN args[first + 1]
                                                 ELSE old[k]
                                  /\ [generatedFiles'[i] EXCEPT !.version = old]
                                        = generatedFiles[i]]_vars
    /\ [](/\ \A i \in 1..Len(log) : ~HasPlaceholder(log[i].path)
          /\ \A path \in permanent : ~HasPlaceholder(path)
          /\ \A k \in 1..Len(mdls) :
                (mdls[k].type = "Library" /\ Len(mdls[k].id) = 4)
                   => ~HasPlaceholder(mdls[k].artifact.readFrom)
          /\ pc \in {"entries", "libraries", "done"} =>
                \A i \in 1..Len(generatedFiles) :
                   ~HasPlaceholder(TargetLocalPath(generatedFiles[i], "")))

\* The tree of 1.20.1 was returned with the module of 'client srg', its
\* version holding the value that follows the flag.
C15_Witness ==
    /\ pc = "done"
    /\ \E k \in 1..Len(neoforgeModule[1].subModules) :
          /\ neoforgeModule[1].subModules[k].name = "client srg"
          /\ Includes(neoforgeModule[1].subModules[k].id[3], "20230612")

\* The flag was the last argument and the run failed.
C15_FailedWitness ==
    /\ err = "PlaceholderUnresolved"
    /\ versionManifest[1].game[Len(versionManifest[1].game)] = "--fml.mcpVersion"

\* The downloads of a path in a log.
DownloadsOf(l, path) == {i \in 1..Len(l) : l[i] = Op("download", path)}

\* The loader's own record of a parsed manifest of the newer adapter: the
\* first record of group net.neoforge.maven and artifact neoforge.
SelfRecord ==
    LET libs == versionManifest[1].libraries
        own == {i \in 1..Len(libs) : libs[i].name = NeoForgeMavenNeoForge}
    IN  libs[CHOOSE i \in own : \A j \in own : i <= j]

\* C16: in processWithoutInstaller, a local universal jar whose SHA-1 is the
\* sha1 of the loader's own record is used as it is, with no download; when
\* the jar is missing or its SHA-1 differs, one download of it is issued and,
\* the download having returned, the root is described from the bytes the
\* repository then holds, those the remote served. The universal jar is
\* downloaded at most once in a run, and the root of the tree returned is
\* described from the bytes the repository holds.
C16_UniversalVerified ==
    /\ [][pc = "universal"
            => LET present == ArtifactExists(localStore, UniversalLocalPath)
                   matches == present /\ Sha1(ReadFile(localStore, UniversalLocalPath))
                                            = SelfRecord.sha1
               IN  IF matches
                   THEN /\ pc' = "directLibraries" /\ err' = "none"
                        /\ Positions(log', "download") = Positions(log, "download")
                        /\ UNCHANGED localStore
                        /\ neoforgeModule'[1].artifact.MD5
                              = Md5(ReadFile(localStore, UniversalLocalPath))
                   ELSE /\ Cardinality(Positions(log', "download"))
                              = Cardinality(Positions(log, "download")) + 1
                        /\ log'[Len(log')] = Op("download", UniversalLocalPath)
                        /\ \/ pc' = "failed" /\ err' = "DownloadError"
                           \/ /\ pc' = "directLibraries" /\ err' = "none"
                              /\ ReadFile(localStore', UniversalLocalPath)
                                    = RemoteBytes(UniversalLocalPath)
                              /\ neoforgeModule'[1].artifact.MD5
                                    = Md5(RemoteBytes(UniversalLocalPath))
                              /\ neoforgeModule'[1].type = "NeoForgeHosted"]_vars
    /\ [](strategy = "NeoForgeGradle3Adapter"
            => /\ Cardinality(DownloadsOf(log, UniversalLocalPath)) <= 1
               /\ pc \in {"directLibraries", "done"}
                     => neoforgeModule[1].artifact.MD5
                           = Md5(ReadFile(localStore, UniversalLocalPath)))

\* The local universal jar was read, found to differ from the record's sha1
\* and downloaded, and the root was built.
C16_Witness ==
    /\ strategy = "NeoForgeGradle3Adapter"
    /\ pc = "directLibraries"
    /\ \E i \in 1..(Len(log) - 1) :
          /\ log[i] = Op("readFile", UniversalLocalPath)
          /\ log[i + 1] = Op("download", UniversalLocalPath)
    /\ neoforgeModule[1].artifact.MD5 = Md5(RemoteBytes(UniversalLocalPath))

\* The name of the loader's own record in a manifest of an adapter.
OwnRecordName(impl) ==
    IF impl = "NeoForgeGradle2Adapter" THEN NeoForgeNeoForge ELSE NeoForgeMavenNeoForge

\* C17: the loader's own record is left out of the library loop: no file of
\* that record is probed, read or downloaded, and no child of the root is
\* built for it.
C17_SelfRecordExcluded ==
    LET own == OwnRecordName(strategy)
    IN  /\ \A i \in 1..Len(log) :
              Len(log[i].path) = 5 =>
                  ~(log[i].path[1] = own[1] /\ log[i].path[2] = own[2])
        /\ neoforgeModule # <<>> =>
              \A k \in 1..Len(neoforgeModule[1].subModules) :
                  LET kid == neoforgeModule[1].subModules[k]
                  IN  kid.type = "Library" =>
                          ~(kid.id[1] = own[1] /\ kid.id[2] = own[2])

\* The module a tree has for a library record resolved with an extension.
ModuleOfLibrary(root, lib, extension) ==
    LET subs == root.subModules
    IN  {k \in 1..Len(subs) : subs[k].type = "Library"
                               /\ subs[k].id = ProperId(lib.name, extension)}

\* C18: an iteration of a library loop over a record that is resolved as
\* plain and whose SHA-1 is checked issues one download when the local file
\* is missing or has another SHA-1 than the one declared, and none when the
\* SHA-1 is the one declared; the module appended is described from the bytes
\* the repository holds after the iteration, which after a download are those
\* the remote served, whatever the record declares.
C18_LibraryVerified ==
    [][(/\ pc = "directLibraries"
        /\ idx <= Len(versionManifest[1].libraries)
        /\ ~StartsWith(versionManifest[1].libraries[idx].name, SkippedPrefix(strategy))
        /\ LET lib == versionManifest[1].libraries[idx]
           IN  \/ strategy = "NeoForgeGradle3Adapter"
               \/ /\ lib.checksums.defined /\ Len(lib.checksums.list) = 1
                  /\ ~ArtifactExists(localStore, ArtifactById(lib.name, "jar.pack.xz"))
                  /\ \/ lib.url = Null
                     \/ ArtifactExists(localStore, ArtifactById(lib.name, "jar"))
                     \/ lib.name \notin remotePacked)
        => LET lib == versionManifest[1].libraries[idx]
               jar == ArtifactById(lib.name, "jar")
               stale == \/ ~ArtifactExists(localStore, jar)
                        \/ Sha1(ReadFile(localStore, jar)) # DeclaredSha1(strategy, lib)
           IN  IF stale
               THEN /\ DownloadsOf(log', jar) = DownloadsOf(log, jar) \cup {Len(log')}
                    /\ Len(log') \notin DownloadsOf(log, jar)
                    /\ \/ pc' = "failed" /\ err' = "DownloadError"
                       \/ /\ pc' = "directLibraries" /\ err' = "none"
                          /\ ReadFile(localStore', jar) = RemoteBytes(jar)
                          /\ LET subs == neoforgeModule'[1].subModules
                             IN  /\ Len(subs) = Len(neoforgeModule[1].subModules) + 1
                                 /\ subs[Len(subs)].id = ProperId(lib.name, "jar")
                                 /\ subs[Len(subs)].artifact.MD5 = Md5(RemoteBytes(jar))
               ELSE /\ pc' = "directLibraries" /\ err' = "none"
                    /\ Positions(log', "download") = Positions(log, "download")
                    /\ UNCHANGED localStore
                    /\ LET subs == neoforgeModule'[1].subModules
                       IN  /\ Len(subs) = Len(neoforgeModule[1].subModules) + 1
                           /\ subs[Len(subs)].id = ProperId(lib.name, "jar")
                           /\ subs[Len(subs)].artifact.MD5
                                 = Md5(ReadFile(localStore, jar))]_vars

\* In the older adapter a library with one declared checksum had a local file
\* of another SHA-1; it was read and downloaded, and its module is described
\* from the bytes served.
C18_Witness ==
    /\ strategy = "NeoForgeGradle2Adapter"
    /\ pc = "directLibraries"
    /\ \E n \in 1..Len(versionManifest[1].libraries) :
          LET lib == versionManifest[1].libraries[n]
              jar == ArtifactById(lib.name, "jar")
          IN  /\ lib.checksums.defined /\ Len(lib.checksums.list) = 1
              /\ \E i \in 1..(Len(log) - 1) :
                    log[i] = Op("readFile", jar) /\ log[i + 1] = Op("download", jar)
              /\ \E k \in ModuleOfLibrary(neoforgeModule[1], lib, "jar") :
                    neoforgeModule[1].subModules[k].artifact.MD5 = Md5(RemoteBytes(jar))

\* The download an action issued: the last entry of the log after it.
DownloadStep ==
    pc \in {"universal", "directLibraries"}
        => /\ pc' = "failed" => err' = "DownloadError"
           /\ Cardinality(Positions(log', "download"))
                 <= Cardinality(Positions(log, "download")) + 1
           /\ (pc' # "failed" /\ Positions(log', "download") # Positions(log, "download"))
                 => LET path == log'[Len(log')].path
                    IN  /\ log'[Len(log')].op = "download"
                        /\ ReadFile(localStore', path) = RemoteBytes(path)
                        /\ pc' = "directLibraries"
                        /\ idx' = (IF pc = "universal" THEN 1 ELSE idx + 1)

\* C19: a step that checks a SHA-1 fails only when a download rejects, never
\* because of the SHA-1 found; a step that downloads issues one download and,
\* the download having returned, goes on with the bytes served whether or not
\* their SHA-1 is the one declared; within a run no path is downloaded twice.
C19_MismatchNotFatal ==
    /\ [][DownloadStep]_vars
    /\ [](\A i, j \in Positions(log, "download") : log[i].path = log[j].path => i = j)

\* A run returned its tree after downloading a library whose bytes, as
\* served, have another SHA-1 than the record declares.
C19_Witness ==
    /\ pc = "done"
    /\ \E n \in 1..Len(versionManifest[1].libraries) :
          LET lib == versionManifest[1].libraries[n]
              jar == ArtifactById(lib.name, "jar")
          IN  /\ DownloadsOf(log, jar) # {}
              /\ DeclaredSha1(strategy, lib) = Sha1(StaleBytes(jar))
              /\ \E k \in ModuleOfLibrary(neoforgeModule[1], lib, "jar") :
                    neoforgeModule[1].subModules[k].artifact.MD5 = Md5(RemoteBytes(jar))

\* The declared SHA-1 the file at a path is compared with is not the SHA-1
\* of the bytes given. The files compared are the universal jar of the newer
\* adapter and the plain file of a record the loop does not pass over; the
\* older adapter compares only against a list of exactly one checksum.
DeclaredDiffers(path, bytes) ==
    \/ /\ strategy = "NeoForgeGradle3Adapter"
       /\ path = UniversalLocalPath
       /\ SelfRecord.sha1 # Sha1(bytes)
    \/ \E n \in 1..Len(versionManifest[1].libraries) :
          LET lib == versionManifest[1].libraries[n]
          IN  /\ ~SkipsRecord(strategy, lib)
              /\ path = ArtifactById(lib.name, "jar")
              /\ strategy = "NeoForgeGradle2Adapter" => DeclaredSha1(strategy, lib) # NoSha1
              /\ DeclaredSha1(strategy, lib) # Sha1(bytes)

\* The plain files a finished run has resolved: the universal jar of the
\* newer adapter and the libraries that have a module of extension jar.
ResolvedPlain ==
    (IF strategy = "NeoForgeGradle3Adapter" THEN {UniversalLocalPath} ELSE {})
    \cup {ArtifactById(versionManifest[1].libraries[n].name, "jar") :
            n \in {m \in 1..Len(versionManifest[1].libraries) :
                      ModuleOfLibrary(neoforgeModule[1],
                                      versionManifest[1].libraries[m], "jar") # {}}}

\* C20 as stated: a run that follows a finished run of the same resolution,
\* the remote and the manifest being the same, issues no download, and the
\* tree it returns is the tree of the run before.
C20_NoDownloadOnSecondRun ==
    run >= 2 => /\ Positions(log, "download") = {}
                /\ pc = "done" => neoforgeModule = firstModule

\* C20: a run that follows a finished run of the same resolution downloads
\* only files that are compared with a declared SHA-1 which is not the SHA-1
\* of the bytes the remote serves; when it is finished its tree is the tree
\* of the run before, and it has downloaded every plain file it resolved
\* whose declared SHA-1 is not that of the bytes the repository holds.
C20_Idempotence ==
    run >= 2 =>
        /\ \A i \in Positions(log, "download") :
              DeclaredDiffers(log[i].path, RemoteBytes(log[i].path))
        /\ pc = "done" =>
              /\ neoforgeModule = firstModule
              /\ \A path \in ResolvedPlain :
                    DeclaredDiffers(path, ReadFile(localStore, path))
                        => DownloadsOf(log, path) # {}

\* A second run has finished with the tree of the first after downloading
\* an artifact again, and has left another artifact alone.
C20_Witness ==
    /\ run = 2
    /\ pc = "done"
    /\ neoforgeModule = firstModule
    /\ Positions(log, "download") # {}
    /\ \E path \in ResolvedPlain : DownloadsOf(log, path) = {}

\* The calls a step adds to the log.
NewOps == SubSeq(log', Len(log) + 1, Len(log'))

\* The position, among the calls a library step adds, of the existence check
\* of the resolved path: the last artifactExists of the step.
ResolvedAt(ops) ==
    CHOOSE k \in 1..Len(ops) :
        /\ ops[k].op = "artifactExists"
        /\ \A j \in (k + 1)..Len(ops) : ops[j].op # "artifactExists"

\* A step of the library loop of the older adapter over a record it does
\* not pass over.
OlderLibraryStep ==
    /\ pc = "directLibraries"
    /\ strategy = "NeoForgeGradle2Adapter"
    /\ idx <= Len(versionManifest[1].libraries)
    /\ ~SkipsRecord(strategy, versionManifest[1].libraries[idx])
    /\ log' # log

\* The probes of an extension determination and the extension resolved.
ProbesDone ==
    LET lib == versionManifest[1].libraries[idx]
        pack == ArtifactById(lib.name, "jar.pack.xz")
        jar == ArtifactById(lib.name, "jar")
        order == <<Op("artifactExists", pack), Op("artifactExists", jar),
                   Op("head", pack), Op("head", jar)>>
        at == ResolvedAt(NewOps)
        probes == SubSeq(NewOps, 1, at - 1)
        extension == NewOps[at].path[5]
        hit == IF ArtifactExists(localStore, pack) THEN 1
               ELSE IF ArtifactExists(localStore, jar) THEN 2
               ELSE IF lib.name \in remotePacked THEN 3
               ELSE 4
    IN  /\ NewOps[at].path = ArtifactById(lib.name, extension)
        /\ IF lib.url = Null
           THEN probes = <<>> /\ extension = "jar"
           ELSE /\ probes = SubSeq(order, 1, hit)
                /\ extension = (IF hit \in {1, 3} THEN "jar.pack.xz" ELSE "jar")

\* C21: the extension of a library is determined by probing the local
\* compressed file, the local plain file, the remote compressed file and the
\* remote plain file, in this order, up to the first that exists, and is
\* plain when none does; no remote probe follows a local hit, and a record
\* without url is resolved as plain with no probe.
C21_ProbeOrder == [][OlderLibraryStep => ProbesDone]_vars

\* A module was appended for a library resolved as compressed by the remote
\* probe, after both local probes.
C21_Witness ==
    /\ strategy = "NeoForgeGradle2Adapter"
    /\ neoforgeModule # <<>>
    /\ \E k \in 1..Len(neoforgeModule[1].subModules) :
          LET id == neoforgeModule[1].subModules[k].id
              pack == <<id[1], id[2], id[3], "", "jar.pack.xz">>
              jar == <<id[1], id[2], id[3], "", "jar">>
          IN  /\ id[5] = "jar.pack.xz"
              /\ \E i \in 1..(Len(log) - 3) :
                    /\ log[i] = Op("artifactExists", pack)
                    /\ log[i + 1] = Op("artifactExists", jar)
                    /\ log[i + 2] = Op("head", pack)
                    /\ log[i + 3] = Op("artifactExists", pack)

\* The older adapter does not compare the file of the record with a
\* checksum: it is resolved as compressed, or the record has no list of
\* exactly one checksum.
NotCompared(lib, extension) ==
    \/ extension = "jar.pack.xz"
    \/ ~lib.checksums.defined
    \/ Len(lib.checksums.list) # 1

\* What a step over a record that is not compared does.
ReusedOrFetched ==
    LET lib == versionManifest[1].libraries[idx]
        at == ResolvedAt(NewOps)
        localPath == NewOps[at].path
        subs == neoforgeModule'[1].subModules
    IN  NotCompared(lib, localPath[5]) =>
            /\ (\E i \in 1..Len(NewOps) : NewOps[i].op = "download")
                  <=> ~ArtifactExists(localStore, localPath)
            /\ ArtifactExists(localStore, localPath) =>
                  /\ pc' # "failed"
                  /\ localStore' = localStore
                  /\ Len(subs) = Len(neoforgeModule[1].subModules) + 1
                  /\ subs[Len(subs)].artifact.MD5 = Md5(ReadFile(localStore, localPath))

\* C22: a step of the older adapter over a library resolved as compressed,
\* or whose checksum list is absent or has not exactly one entry, downloads
\* when and only when the local file is absent; a present file is left as it
\* is and the module is described from it, whatever its SHA-1.
C22_VerificationSkipped == [][OlderLibraryStep => ReusedOrFetched]_vars

\* A present compressed file of a record with exactly one checksum, which
\* its SHA-1 is not, was used without a download.
C22_Witness ==
    /\ strategy = "NeoForgeGradle2Adapter"
    /\ neoforgeModule # <<>>
    /\ \E n \in 1..Len(versionManifest[1].libraries) :
          LET lib == versionManifest[1].libraries[n]
              pack == ArtifactById(lib.name, "jar.pack.xz")
          IN  /\ lib.checksums.defined /\ Len(lib.checksums.list) = 1
              /\ ModuleOfLibrary(neoforgeModule[1], lib, "jar.pack.xz") # {}
              /\ ArtifactExists(localStore, pack)
              /\ Sha1(ReadFile(localStore, pack)) # lib.checksums.list[1]
              /\ DownloadsOf(log, pack) = {}

\* The entries of the libraries resolved as compressed among the modules
\* appended, in the order of the modules.
RECURSIVE CompressedOf(_)
CompressedOf(subs) ==
    IF subs = <<>>
    THEN <<>>
    ELSE LET m == subs[Len(subs)]
             before == CompressedOf(SubSeq(subs, 1, Len(subs) - 1))
         IN  IF m.id[5] = "jar.pack.xz"
             THEN Append(before, [id |-> m.id, localPath |-> m.artifact.readFrom])
             ELSE before

\* The older adapter is in or after its library loop.
InLibraryLoop ==
    /\ strategy = "NeoForgeGradle2Adapter"
    /\ neoforgeModule # <<>>

\* The queue holds the libraries resolved as compressed, in manifest order:
\* the n-th module is that of the n-th record, and the queue has the entries
\* of the modules with the compressed extension, in their order.
QueueIsCompressed ==
    InLibraryLoop =>
        LET subs == neoforgeModule[1].subModules
            libs == versionManifest[1].libraries
        IN  /\ Len(subs) <= Len(libs)
            /\ \A n \in 1..Len(subs) :
                  \E ext \in {"jar", "jar.pack.xz"} :
                     /\ subs[n].id = ProperId(libs[n].name, ext)
                     /\ subs[n].artifact.readFrom = ArtifactById(libs[n].name, ext)
            /\ postProcessQueue = CompressedOf(subs)

\* The steps of the post-processing as the queue drives them.
QueueDrives ==
    /\ (pc = "directLibraries" /\ pc' \in {"done", "packCopy"}) =>
          IF postProcessQueue = <<>>
          THEN pc' = "done" /\ tempDir' = tempDir /\ log' = log
          ELSE /\ tempDir' = [exists |-> TRUE, files |-> {}]
               /\ tempDir.exists => \E i \in 1..(Len(NewOps) - 1) :
                                       /\ NewOps[i] = Op("remove", TempDir)
                                       /\ NewOps[i + 1] = Op("mkdirs", TempDir)
    /\ Positions(log', "extractUnpack") # Positions(log, "extractUnpack") =>
          /\ Positions(log, "extractUnpack") = {}
          /\ Cardinality(Positions(log', "extractUnpack")) = 1
          /\ tmpFiles = [i \in 1..Len(postProcessQueue) |->
                            TmpFile(postProcessQueue[i].localPath)]
          /\ \A i \in 1..Len(tmpFiles) :
                /\ ArtifactExists(tempDir.files, tmpFiles[i])
                /\ \E j \in Positions(log, "copy") : log[j].path = tmpFiles[i]
          /\ Cardinality(Positions(log, "copy")) = Len(postProcessQueue)

\* What a run that returned has done with the scratch directory.
QueueDrove ==
    (InLibraryLoop /\ pc = "done") =>
        IF postProcessQueue = <<>>
        THEN Ops(log) \cap {"pathExists", "mkdirs", "remove", "copy", "extractUnpack"} = {}
        ELSE Cardinality(Positions(log, "extractUnpack")) = 1

\* C23: the queue of the batch decompression holds exactly the libraries
\* resolved as compressed, in manifest order. With a queue that is not empty
\* the scratch directory is removed if it exists and created empty, every
\* queued file is copied into it, and the unpack tool is called once, with
\* all the copies; with an empty queue the tool is not called and the
\* scratch directory is neither created nor removed.
C23_QueueDrivesBatch ==
    /\ []QueueIsCompressed
    /\ [][QueueDrives]_vars
    /\ []QueueDrove

\* A run over two compressed libraries returned after one call of the
\* unpack tool, having removed the scratch directory an earlier run left.
C23_Witness ==
    /\ pc = "done"
    /\ strategy = "NeoForgeGradle2Adapter"
    /\ Len(postProcessQueue) = 2
    /\ Cardinality(Positions(log, "copy")) = 2
    /\ Cardinality(Positions(log, "extractUnpack")) = 1
    /\ \E i \in Positions(log, "remove"), j \in Positions(log, "mkdirs") : i < j

\* C24: when the older adapter has returned its tree, the module of every
\* library resolved as compressed has the MD5 of the unpacked form of that
\* library's file, and every other library module has the MD5 of its file
\* as read by the loop.
C24_SecondaryHash ==
    (InLibraryLoop /\ pc = "done") =>
        \A n \in 1..Len(neoforgeModule[1].subModules) :
            LET m == neoforgeModule[1].subModules[n]
                bytes == ReadFile(localStore, m.artifact.readFrom)
            IN  m.artifact.MD5 = IF m.id[5] = "jar.pack.xz"
                                 THEN Md5(Unpacked(bytes))
                                 ELSE Md5(bytes)

\* C25: when a run has ended, in success or in failure, after the
\* post-processing created the scratch directory, the scratch directory does
\* not exist.
C25_ScratchRemoved ==
    (pc \in {"done", "failed"} /\ Positions(log, "mkdirs") # {}) => ~tempDir.exists

\* The calls that write to the disk, download or start a process.
EffectOps ==
    {"mkdirs", "copy", "writeFile", "writeJson", "remove", "download", "spawn",
     "extractUnpack"}

\* The step in which the constructor runs the security gate.
GateStep == Positions(log', "checkSecurity") # Positions(log, "checkSecurity")

C27_AdvisoryTable ==
    strategy # "none" =>
        IF IsVulnerable(minecraftVersion)
        THEN /\ Minor(minecraftVersion) \in PatchMatrixKeys
             /\ advisory <=> ~VersionGte(neoforgeVersion,
                                         PatchMatrix(Minor(minecraftVersion)))
        ELSE ~advisory

\* Installer-mediated run: while the expected files or the libraries are
\* reconciled, the manifest of the installer output has been found, parsed
\* and copied.
ManifestBeforeReconciliation ==
    pc \in {"entries", "libraries"} =>
        /\ cacheManifest # <<>>
        /\ versionManifest = cacheManifest
        /\ manifestModule # <<>>
        /\ \E i \in Positions(log, "copy") :
              /\ log[i].path = VersionManifestDest
              /\ \A j \in 1..Len(log) :
                    (log[j].op \in {"pathExists", "copy"} /\ j # i
                     /\ log[j].path \notin {CacheDir, WorkingInstaller}) => i < j

\* Older adapter: while the libraries are processed the manifest of the jar
\* has been parsed.
ManifestBeforeLibraries ==
    (strategy = "NeoForgeGradle2Adapter" /\ pc = "directLibraries") =>
        (embeddedManifest # <<>> /\ versionManifest = embeddedManifest)

\* The calls of the library loop of the older adapter.
LibraryOps == {"artifactExists", "head", "download"}

\* Older adapter: when the post-processing starts, and from then on, every
\* record of the manifest has its module and its existence check, and no
\* call of the library loop follows a call of the post-processing.
LibrariesBeforePostProcessing ==
    (strategy = "NeoForgeGradle2Adapter"
     /\ (pc \in {"packCopy", "packRead"} \/ (pc = "done" /\ neoforgeModule # <<>>))) =>
        LET libs == versionManifest[1].libraries
            subs == neoforgeModule[1].subModules
            kept == {n \in 1..Len(libs) : ~SkipsRecord(strategy, libs[n])}
        IN  /\ Len(subs) = Cardinality(kept)
            /\ \A n \in kept :
                  \E ext \in {"jar", "jar.pack.xz"} :
                     /\ ModuleOfLibrary(neoforgeModule[1], libs[n], ext) # {}
                     /\ \E i \in Positions(log, "artifactExists") :
                           log[i].path = ArtifactById(libs[n].name, ext)
            /\ \A i, j \in 1..Len(log) :
                  (log[i].path = TempDir /\ log[j].op \in LibraryOps) => j < i

\* C28: in the installer-mediated run no expected file and no library is
\* reconciled before the manifest was found and parsed; in the run of the
\* older adapter no library is processed before the manifest was extracted
\* and parsed, and the post-processing starts only when every record of the
\* manifest has been resolved and has its module.
C28_StepsOrdered ==
    /\ ManifestBeforeReconciliation
    /\ ManifestBeforeLibraries
    /\ LibrariesBeforePostProcessing

\* The post-processing of two queued libraries has started.
C28_Witness ==
    /\ strategy = "NeoForgeGradle2Adapter"
    /\ pc = "packCopy"
    /\ Len(postProcessQueue) = 2
    /\ Len(tmpFiles) = 1

\* The run is past the cache check and the installer of the
\* installer-mediated run.
PastInstaller ==
    pc \in {"verify", "processVersionManifest", "processNeoForgeModule", "entries",
            "libraries"}

\* The installer is spawned at most once, not at all by a run that uses the
\* cache and once by a run that does not; the call after a spawn is the
\* close of the process, and until then the run waits.
SpawnedOnce ==
    /\ Cardinality(Positions(log, "spawn")) <= 1
    /\ PastInstaller =>
          Cardinality(Positions(log, "spawn")) = (IF doInstall THEN 1 ELSE 0)
    /\ \A i \in Positions(log, "spawn") :
          IF i = Len(log) THEN pc = "installerRunning" ELSE log[i + 1].op = "close"
    /\ pc = "installerRunning" => log[Len(log)].op = "spawn"

\* The run has returned its tree or has thrown.
Terminal == pc \in {"done", "failed"}

\* C30: the installer process is spawned at most once in a run, not at all
\* when the cache is used and once otherwise; no step follows the spawn
\* before the process has closed; and every run, the process closing and
\* every call returning, ends with its tree returned or with an error.
C30_SpawnedOnceAndTerminates ==
    /\ []SpawnedOnce
    /\ (pc \in {"start", "constructed"}) ~> Terminal

\* A run that spawned the installer returned its tree.
C30_Witness ==
    /\ pc = "done"
    /\ doInstall
    /\ Cardinality(Positions(log, "spawn")) = 1
    /\ Cardinality(Positions(log, "close")) = 1

\* The MD5 the module of a library has in the tree of a run that is alone on
\* the root: of the unpacked form of its own file when it was resolved as
\* compressed, of its file otherwise.
AloneMD5(store, m) ==
    LET bytes == ReadFile(store, m.artifact.readFrom)
    IN  IF m.id[5] = "jar.pack.xz" THEN Md5(Unpacked(bytes)) ELSE Md5(bytes)

ReturnedAsAlone(r) ==
    r.pc = "done" =>
        \A n \in 1..Len(r.neoforgeModule[1].subModules) :
            r.neoforgeModule[1].subModules[n].artifact.MD5 =
                AloneMD5(localStore, r.neoforgeModule[1].subModules[n])

NoScratchOverwrite ==
    \A i, j \in 1..Len(tmpFiles) : i # j => tmpFiles[i] # tmpFiles[j]

\* Every module of a compressed library has the MD5 of the unpacked form of
\* the file of that library.
PatchedWithOwnHash ==
    \A n \in 1..Len(neoforgeModule[1].subModules) :
        LET m == neoforgeModule[1].subModules[n]
        IN  m.id[5] = "jar.pack.xz" =>
                m.artifact.MD5 = Md5(Unpacked(ReadFile(localStore, m.artifact.readFrom)))

\* C35: in the batch decompression no queued file is copied over another
\* one in the scratch directory, and when the run has returned every module
\* of a queued library has the hash of that library's own unpacked content,
\* also with two queued libraries of the same file name or the same id.
C35_OwnDecompressedHash ==
    InLibraryLoop =>
        /\ NoScratchOverwrite
        /\ pc = "done" => PatchedWithOwnHash

\* A table with the entries in the other order.
Reversed(table) == [i \in 1..Len(table) |-> table[Len(table) + 1 - i]]

\* C33: for every pair at most one of the predicates of the two adapters
\* holds; for game version 1.12 the loader version alone decides which one;
\* and the adapter selected is the one selected from the table in the other
\* order.
C33_PredicatesExclusive ==
    LET fg2 == FG2IsForVersion(minecraftVersion, neoforgeVersion)
        fg3 == FG3IsForVersion(minecraftVersion, neoforgeVersion)
    IN  /\ ~(fg2 /\ fg3)
        /\ (Major(minecraftVersion) = 1 /\ Minor(minecraftVersion) = 12) =>
              /\ fg2 = IsOneDotTwelveFG2(neoforgeVersion)
              /\ fg3 = ~IsOneDotTwelveFG2(neoforgeVersion)
        /\ pc \notin {"start", "failed"} =>
              \A table \in Tables :
                  strategy = SelectImpl(Reversed(table), minecraftVersion,
                                        neoforgeVersion).impl

\* The older adapter was constructed for 1.12, where the list of the newer
\* adapter has the minor version too.
C33_Witness ==
    /\ pc = "constructed"
    /\ Minor(minecraftVersion) = 12
    /\ strategy = "NeoForgeGradle2Adapter"
    /\ IsVersionAcceptable(minecraftVersion, 12..21)

\* The run is in processWithInstaller.
InInstallerRun ==
    pc \in {"processWithInstaller", "stage", "installerRunning", "verify",
            "processVersionManifest", "processNeoForgeModule", "entries", "libraries"}

\* The run is in processWithoutInstaller.
InDirectRun == pc \in {"processWithoutInstaller", "universal", "directLibraries"}

UsesPlaceholder ==
    \E i \in 1..Len(wildcardsInUse) : wildcardsInUse[i] = WILDCARD_MCP_VERSION

\* C32: a run that fails with PlaceholderUnresolved has written nothing to
\* permanent storage, and while the manifest is at its permanent location
\* in a run that uses the placeholder, the placeholder has been resolved.
C32_ManifestAfterPlaceholders ==
    /\ (pc = "failed" /\ err = "PlaceholderUnresolved") => permanent = {}
    /\ (VersionManifestDest \in permanent /\ UsesPlaceholder) =>
          pc # "processNeoForgeModule"

\* The run is past the cache check of processWithInstaller.
PastCacheCheck ==
    pc \in {"stage", "installerRunning", "verify", "processVersionManifest",
            "processNeoForgeModule", "entries", "libraries", "done"}

\* The run before left nothing to reuse: it failed on the installer output,
\* or it returned with output-discard requested.
LeftNoCache ==
    \/ previous[1].pc = "failed" /\ previous[1].err = "InstallerOutputMissing"
    \/ previous[1].pc = "done" /\ previous[1].discardOutput

\* The run before returned and kept the installer output.
LeftCache == previous[1].pc = "done" /\ ~previous[1].discardOutput

\* C31: a run after one that failed with InstallerOutputMissing, or that
\* returned with output-discard requested, executes the installer, with
\* cache invalidation or without; a run without cache invalidation after one
\* that returned without output-discard does not execute the installer and
\* returns the tree the run before returned.
C31_ConsecutiveRuns ==
    (previous # <<>> /\ PastCacheCheck) =>
        /\ LeftNoCache =>
              /\ doInstall
              /\ pc # "stage" => Cardinality(Positions(log, "spawn")) = 1
        /\ (LeftCache /\ ~invalidateCache) =>
              /\ ~doInstall
              /\ Positions(log, "spawn") = {}
              /\ pc = "done" => neoforgeModule = firstModule

\* A run without cache invalidation returned from the cache the run before
\* left.
C31_Witness ==
    /\ previous # <<>>
    /\ pc = "done"
    /\ LeftCache
    /\ ~invalidateCache
    /\ ~doInstall
    /\ neoforgeModule # <<>>

====
